---- MODULE Spec2Model ----
(***************************************************************************)
(* The recurrence engine of the Eisenhower-matrix client (src/src/App.tsx):*)
(* next-deadline calculation, recurrence description, and the conversion   *)
(* between the edit form and the stored recurrence.                        *)
(*                                                                         *)
(* Dates.  A JavaScript Date is modelled by its time value counted in whole*)
(* minutes since 1970-01-01T00:00Z; NaN is the time value of an Invalid    *)
(* Date.  The accessors getDate, setDate, ... work on the local time of    *)
(* the host time zone tz, while new Date("YYYY-MM-DD") and toISOString()   *)
(* work in UTC.  A date string "YYYY-MM-DD" is the record [year, month,    *)
(* day].                                                                   *)
(*                                                                         *)
(* Optional values.  An optional property is a sequence: of length 0 when  *)
(* it is absent (undefined), of length 1 when it holds a value, and of     *)
(* length 2 when it is null.                                               *)
(***************************************************************************)
EXTENDS Integers, Sequences, FiniteSets, TLC

VARIABLES
    pc,              \* position of the caller: which operation ran last
    now,             \* the clock: the time value new Date() returns
    tz,              \* the time zone of the host
    currentDeadline, \* Task.deadline handed to calculateNextDeadline
    recurrence,      \* Task.recurrence, the TaskRecurrence under study
    nextDeadline,    \* what calculateNextDeadline returned or threw
    form,            \* the RecurrenceFormState of the edit modal
    rebuilt,         \* buildRecurrenceConfig(form)
    raw,             \* parsed.recurrence of the AI response, any JSON value
    validated,       \* validateRecurrence(raw)
    revalidated,     \* validateRecurrence of the validated value read back
    description,     \* what getRecurrenceDescription returned last
    tasks,           \* the tasks state: the list of tasks of every quadrant
    clock,           \* the clock: the millisecond Date.now() returns
    failure,         \* the message of an error no handler caught, "" if none
    isFabOpen,       \* the menu of the floating action button is shown
    showAddModal,    \* the add modal is shown
    addForm,         \* addForm.input, the text of the add modal
    isAddingTask,    \* addTask awaits the AI response
    isAiSorting,     \* autoSortWithAI awaits the AI response
    error,           \* the error toast of App, "" if none
    editingTask,     \* {task, quadrant} of the edit modal, absent when closed
    editForm,        \* the edit form but for its recurrence, which is form
    allTasks,        \* the tasks autoSortWithAI collected before its await
    settings,        \* SettingsModal: the NotificationSettings, absent if null
    loading,         \* SettingsModal: loadSettings awaits the server
    saving,          \* SettingsModal: a change awaits the server
    settingsError,   \* SettingsModal: the error shown, absent if null
    settingsCall,    \* SettingsModal: the settings change that awaits, and its await
    isOpen,          \* SettingsModal: the isOpen property
    loads,           \* SettingsModal: the calls of loadSettings that await
    tests,           \* SettingsModal: the calls of handleTestNotification that await
    pushSupported,   \* the browser: what isPushSupported() returns
    iosNotInstalled  \* the browser: what isIOSPWA() returns

vars == <<pc, now, tz, currentDeadline, recurrence, nextDeadline, form, rebuilt,
          raw, validated, revalidated, description, tasks, clock, failure,
          isFabOpen, showAddModal, addForm, isAddingTask, isAiSorting, error,
          editingTask, editForm, allTasks,
          settings, loading, saving, settingsError, settingsCall, isOpen, loads,
          tests, pushSupported, iosNotInstalled>>

appVars == <<isFabOpen, showAddModal, addForm, isAddingTask, isAiSorting, error,
             editingTask, editForm, allTasks>>

\* The browser the application runs in.
browserVars == <<pushSupported, iosNotInstalled>>

settingsVars == <<settings, loading, saving, settingsError, settingsCall, isOpen,
                  loads, tests, browserVars>>

storeVars == <<tasks, clock, failure>>

validatorVars == <<raw, validated, revalidated>>

(***************************************************************************)
(* Bounds of the model.                                                    *)
(***************************************************************************)
FirstYear == 2023
YearSpan == 1
LastYear == FirstYear + YearSpan
MaxInterval == 4

\* The largest interval a stored recurrence holds (validateRecurrence clamps to it).
INTERVAL_LIMIT == 99

Undefined == <<>>
NullOption == <<0, 0>>
Some(x) == <<x>>
\* o !== undefined && o !== null
IsSet(o) == Len(o) = 1
\* o !== undefined
IsDefined(o) == o # Undefined
Get(o) == o[1]

(***************************************************************************)
(* ECMAScript date arithmetic (Date.prototype.* as used by App.tsx).       *)
(***************************************************************************)
\* Below every time value of the model.
NaN == -2000000000

MinutesPerDay == 1440

IsLeapYear(y) == (y % 4 = 0 /\ y % 100 # 0) \/ y % 400 = 0

\* Day number of January 1st of year y (ECMAScript DayFromYear).
DayFromYear(y) ==
    365 * (y - 1970) + ((y - 1969) \div 4) - ((y - 1901) \div 100)
        + ((y - 1601) \div 400)

\* Days of the year before month m (0 = January), m in 0..12.
DaysBeforeMonth(y, m) ==
    LET cum == <<0, 31, 59, 90, 120, 151, 181, 212, 243, 273, 304, 334, 365>>
    IN  cum[m + 1] + (IF m >= 2 /\ IsLeapYear(y) THEN 1 ELSE 0)

\* ECMAScript MakeDay: month and date may lie outside their calendar range
\* and overflow into the neighbouring months and years.
MakeDay(y, m, dt) ==
    LET ym == y + (m \div 12)
        mn == m % 12
    IN  DayFromYear(ym) + DaysBeforeMonth(ym, mn) + dt - 1

\* ECMAScript MakeDate, Day and TimeWithinDay, in minutes.
MakeDate(day, time) == day * MinutesPerDay + time

Day(t) == t \div MinutesPerDay

TimeWithinDay(t) == t % MinutesPerDay

YearFromTime(t) ==
    LET y0 == 1970 + (Day(t) \div 366)
    IN  CHOOSE y \in y0 .. (y0 + 2) :
            DayFromYear(y) <= Day(t) /\ Day(t) < DayFromYear(y + 1)

MonthFromTime(t) ==
    LET y == YearFromTime(t)
        d == Day(t) - DayFromYear(y)
    IN  CHOOSE m \in 0 .. 11 : DaysBeforeMonth(y, m) <= d /\ d < DaysBeforeMonth(y, m + 1)

DateFromTime(t) ==
    LET y == YearFromTime(t)
    IN  Day(t) - DayFromYear(y) - DaysBeforeMonth(y, MonthFromTime(t)) + 1

\* 1970-01-01 was a Thursday (4); 0 = Sunday.
WeekDay(t) == (Day(t) + 4) % 7

\* The host time zones of the model: no offset, west of Greenwich with
\* daylight saving time, east of Greenwich.
TimeZones == {"UTC", "America/New_York", "Asia/Tokyo"}

\* The first Sunday on or after a day.
SundayFrom(day) == day + ((7 - ((day + 4) % 7)) % 7)

\* America/New_York: daylight saving time starts on the second Sunday of
\* March at 02:00 standard time and ends on the first Sunday of November at
\* 02:00 daylight time (both as local times).
DaylightStarts(y) == MakeDate(SundayFrom(MakeDay(y, 2, 8)), 120)

DaylightEnds(y) == MakeDate(SundayFrom(MakeDay(y, 10, 1)), 120)

\* ECMAScript LocalTZA(t, isUTC), in minutes: the offset of the host time
\* zone at the UTC time t, or at the local time t; a local time that is
\* skipped or repeated is read with the offset before the transition.
LocalTZA(t, isUTC) ==
    CASE tz = "Asia/Tokyo" -> 540
      [] tz = "America/New_York" ->
           LET y == YearFromTime(t)
               from == DaylightStarts(y) + (IF isUTC THEN 300 ELSE 60)
               until == DaylightEnds(y) + (IF isUTC THEN 240 ELSE 0)
           IN  IF from <= t /\ t < until THEN -240 ELSE -300
      [] OTHER -> 0

LocalTime(t) == t + LocalTZA(t, TRUE)

UTC(t) == t - LocalTZA(t, FALSE)

getFullYear(t) == YearFromTime(LocalTime(t))

getMonth(t) == MonthFromTime(LocalTime(t))

getDate(t) == DateFromTime(LocalTime(t))

getDay(t) == WeekDay(LocalTime(t))

setDate(t, dt) ==
    IF t = NaN THEN NaN
    ELSE LET local == LocalTime(t)
         IN  UTC(MakeDate(MakeDay(YearFromTime(local), MonthFromTime(local), dt),
                          TimeWithinDay(local)))

setMonth(t, m) ==
    IF t = NaN THEN NaN
    ELSE LET local == LocalTime(t)
         IN  UTC(MakeDate(MakeDay(YearFromTime(local), m, DateFromTime(local)),
                          TimeWithinDay(local)))

\* Called with getFullYear() + n, which is NaN on an Invalid Date.
setFullYear(t, y) ==
    IF t = NaN THEN NaN
    ELSE LET local == LocalTime(t)
         IN  UTC(MakeDate(MakeDay(y, MonthFromTime(local), DateFromTime(local)),
                          TimeWithinDay(local)))

\* A date string the Date constructor can parse: the month is checked, the
\* day may be up to 31 in every month ("2023-02-30" is March 2nd).
IsDateString(s) ==
    /\ s.month \in 1 .. 12
    /\ s.day \in 1 .. 31

\* new Date(str) for a date-only string: midnight UTC of that day, or an
\* Invalid Date when the string is no date.
ParseDate(s) ==
    IF IsDateString(s) THEN MakeDate(MakeDay(s.year, s.month - 1, s.day), 0) ELSE NaN

\* The string that stands for the empty string ''.
EmptyString == [year |-> 0, month |-> 0, day |-> 1]

NoDate == [year |-> 0, month |-> 0, day |-> 0]

Returned(d) == [threw |-> FALSE, value |-> d, error |-> ""]

Thrown(msg) == [threw |-> TRUE, value |-> NoDate, error |-> msg]

\* date.toISOString().split('T')[0]; toISOString throws a RangeError on an
\* Invalid Date.
toISODate(t) ==
    IF t = NaN
    THEN Thrown("RangeError: Invalid time value")
    ELSE Returned([year |-> YearFromTime(t), month |-> MonthFromTime(t) + 1,
                   day |-> DateFromTime(t)])

\* Days of month m (1 = January) of year y.
DaysInCalendarMonth(y, m) == DaysBeforeMonth(y, m) - DaysBeforeMonth(y, m - 1)

\* The date string names a day of the calendar.
IsCalendarDate(s) ==
    /\ s.month \in 1 .. 12
    /\ s.day \in 1 .. DaysInCalendarMonth(s.year, s.month)

\* The day number of a calendar date, and the calendar date of a day number.
DayOfString(s) == MakeDay(s.year, s.month - 1, s.day)

StringOfDay(d) == toISODate(MakeDate(d, 0)).value

\* The weekday of a calendar date (0 = Sunday).
WeekDayOfString(s) == (DayOfString(s) + 4) % 7

(***************************************************************************)
(* TaskRecurrence = LegacyRecurrencePattern | RecurrenceConfig | null.     *)
(***************************************************************************)
Null == [type |-> "null"]

Legacy(p) == [type |-> "string", value |-> p]

Config(i, u, wd, md) ==
    [type |-> "object", interval |-> i, unit |-> u, weekDays |-> wd, monthDay |-> md]

LegacyPatterns == {"daily", "weekly", "monthly", "yearly"}

RecurrenceUnits == {"day", "week", "month", "year"}

isLegacyRecurrence(r) == r.type = "string"

\* new Date(year, month + 1, 0) is a local midnight.
getDaysInMonth(t) ==
    getDate(UTC(MakeDate(MakeDay(getFullYear(t), getMonth(t) + 1, 0), 0)))

\* Array.prototype.sort((a, b) => a - b) on a copy: insertion sort.
RECURSIVE Insert(_, _)
Insert(x, s) ==
    IF s = <<>> THEN <<x>>
    ELSE IF x <= Head(s) THEN <<x>> \o s
    ELSE <<Head(s)>> \o Insert(x, Tail(s))

RECURSIVE SortAscending(_)
SortAscending(s) ==
    IF s = <<>> THEN <<>> ELSE Insert(Head(s), SortAscending(Tail(s)))

\* sortedDays.find(d => d > currentDay): the first such element, if any.
RECURSIVE FindGreater(_, _)
FindGreater(s, currentDay) ==
    IF s = <<>> THEN Undefined
    ELSE IF Head(s) > currentDay THEN Some(Head(s))
    ELSE FindGreater(Tail(s), currentDay)

\* Faulty variant: the next selected day of the week is taken whatever the
\* interval.
findNextWeekdayOccurrenceAnyInterval(baseDate, weekInterval, weekDays) ==
    IF baseDate = NaN
    THEN toISODate(NaN)
    ELSE
    LET sortedDays == SortAscending(weekDays)
        currentDay == getDay(baseDate)
        nextDayThisWeek == FindGreater(sortedDays, currentDay)
    IN  IF IsSet(nextDayThisWeek)
        THEN LET daysToAdd == Get(nextDayThisWeek) - currentDay
             IN  toISODate(setDate(baseDate, getDate(baseDate) + daysToAdd))
        ELSE LET daysUntilNextWeek == 7 - currentDay + sortedDays[1]
                 additionalWeeks == (weekInterval - 1) * 7
             IN  toISODate(setDate(baseDate,
                     getDate(baseDate) + daysUntilNextWeek + additionalWeeks))

findNextWeekdayOccurrence(baseDate, weekInterval, weekDays) ==
    IF baseDate = NaN
    THEN toISODate(NaN)  \* getDay() is NaN, every setDate leaves the date invalid
    ELSE
    LET sortedDays == SortAscending(weekDays)
        currentDay == getDay(baseDate)
        nextDayThisWeek == FindGreater(sortedDays, currentDay)
    IN  IF IsSet(nextDayThisWeek) /\ weekInterval = 1
        THEN LET daysToAdd == Get(nextDayThisWeek) - currentDay
             IN  toISODate(setDate(baseDate, getDate(baseDate) + daysToAdd))
        ELSE LET daysUntilNextWeek == 7 - currentDay + sortedDays[1]
                 additionalWeeks == (weekInterval - 1) * 7
             IN  toISODate(setDate(baseDate,
                     getDate(baseDate) + daysUntilNextWeek + additionalWeeks))

\* Faulty variant: a month is taken to be 30 days.
calculateLegacyNextDeadline30(baseDate, r) ==
    IF baseDate = NaN THEN toISODate(NaN) ELSE
    CASE r.value = "daily" -> toISODate(setDate(baseDate, getDate(baseDate) + 1))
      [] r.value = "weekly" -> toISODate(setDate(baseDate, getDate(baseDate) + 7))
      [] r.value = "monthly" -> toISODate(setDate(baseDate, getDate(baseDate) + 30))
      [] r.value = "yearly" -> toISODate(setFullYear(baseDate, getFullYear(baseDate) + 1))
      [] OTHER -> toISODate(baseDate)

\* An Invalid Date stays invalid under every setter, so toISOString throws.
calculateLegacyNextDeadline(baseDate, r) ==
    IF baseDate = NaN THEN toISODate(NaN) ELSE
    CASE r.value = "daily" -> toISODate(setDate(baseDate, getDate(baseDate) + 1))
      [] r.value = "weekly" -> toISODate(setDate(baseDate, getDate(baseDate) + 7))
      [] r.value = "monthly" -> toISODate(setMonth(baseDate, getMonth(baseDate) + 1))
      [] r.value = "yearly" -> toISODate(setFullYear(baseDate, getFullYear(baseDate) + 1))
      [] OTHER -> toISODate(baseDate)

\* An Invalid Date stays invalid under every setter, so toISOString throws.
calculateFlexibleNextDeadline(baseDate, config) ==
    IF baseDate = NaN THEN toISODate(NaN) ELSE
    LET interval == config.interval
        unit == config.unit
        weekDays == config.weekDays
        monthDay == config.monthDay
    IN  CASE unit = "day" ->
               toISODate(setDate(baseDate, getDate(baseDate) + interval))
          [] unit = "week" ->
               IF IsSet(weekDays) /\ Len(Get(weekDays)) > 0
               THEN findNextWeekdayOccurrence(baseDate, interval, Get(weekDays))
               ELSE toISODate(setDate(baseDate, getDate(baseDate) + (interval * 7)))
          [] unit = "month" ->
               LET moved == setMonth(baseDate, getMonth(baseDate) + interval)
               IN  IF IsSet(monthDay)
                   THEN LET targetDay ==
                                IF Get(monthDay) <= getDaysInMonth(moved)
                                THEN Get(monthDay) ELSE getDaysInMonth(moved)
                        IN  toISODate(setDate(moved, targetDay))
                   ELSE toISODate(moved)
          [] unit = "year" ->
               toISODate(setFullYear(baseDate, getFullYear(baseDate) + interval))
          [] OTHER -> toISODate(baseDate)

\* Faulty variant: an overdue deadline is replaced by today as the base date.
calculateNextDeadlineOverdue(deadline, r, today) ==
    IF r.type = "null" \/ r = [type |-> "string", value |-> ""]
    THEN Thrown("Recurrence pattern is required")
    ELSE LET parsed == IF IsSet(deadline) /\ Get(deadline) # EmptyString
                       THEN ParseDate(Get(deadline)) ELSE today
             baseDate == IF parsed # NaN /\ parsed < today THEN today ELSE parsed
         IN  IF isLegacyRecurrence(r)
             THEN calculateLegacyNextDeadline(baseDate, r)
             ELSE calculateFlexibleNextDeadline(baseDate, r)

\* deadline: the optional date string; today: what new Date() returns.
\* !recurrence holds for null and for '', and an empty deadline is falsy.
calculateNextDeadline(deadline, r, today) ==
    IF r.type = "null" \/ r = [type |-> "string", value |-> ""]
    THEN Thrown("Recurrence pattern is required")
    ELSE LET baseDate == IF IsSet(deadline) /\ Get(deadline) # EmptyString
                         THEN ParseDate(Get(deadline)) ELSE today
         IN  IF isLegacyRecurrence(r)
             THEN calculateLegacyNextDeadline(baseDate, r)
             ELSE calculateFlexibleNextDeadline(baseDate, r)

(***************************************************************************)
(* Human-readable description.                                             *)
(***************************************************************************)
DAY_NAMES == <<"Sun", "Mon", "Tue", "Wed", "Thu", "Fri", "Sat">>

\* The JavaScript % operator: the result takes the sign of the dividend.
JsRemainder(a, b) == IF a >= 0 THEN a % b ELSE -((-a) % b)

\* Faulty variant: the suffix is taken from the last digit alone.
getOrdinalSuffixLastDigit(n) ==
    LET s == <<"th", "st", "nd", "rd">>
        v == JsRemainder(n, 10)
    IN  IF v \in 0 .. 3 THEN s[v + 1] ELSE s[1]

\* s[(v - 20) % 10] || s[v] || s[0]: an index outside 0..3 reads undefined.
getOrdinalSuffix(n) ==
    LET s == <<"th", "st", "nd", "rd">>
        v == JsRemainder(n, 100)
        at(i) == IF i \in 0 .. 3 THEN Some(s[i + 1]) ELSE Undefined
        first == at(JsRemainder(v - 20, 10))
        second == at(v)
    IN  IF IsSet(first) THEN Get(first)
        ELSE IF IsSet(second) THEN Get(second)
        ELSE s[1]

\* weekDays.map(d => DAY_NAMES[d]).join(', ')
RECURSIVE JoinDayNames(_)
JoinDayNames(weekDays) ==
    IF weekDays = <<>> THEN ""
    ELSE IF Len(weekDays) = 1 THEN DAY_NAMES[Head(weekDays) + 1]
    ELSE DAY_NAMES[Head(weekDays) + 1] \o ", " \o JoinDayNames(Tail(weekDays))

\* weekDays.includes(x)
Includes(s, x) == \E i \in 1 .. Len(s) : s[i] = x

\* Faulty variant: a monthDay is described whatever the unit is.
getRecurrenceDescriptionAnyUnit(r) ==
    IF r.type = "null" \/ r = Legacy("") THEN ""
    ELSE IF isLegacyRecurrence(r) THEN
        CASE r.value = "daily" -> "Daily"
          [] r.value = "weekly" -> "Weekly"
          [] r.value = "monthly" -> "Monthly"
          [] r.value = "yearly" -> "Yearly"
    ELSE
    LET interval == r.interval
        unit == r.unit
        weekDays == r.weekDays
        monthDay == r.monthDay
    IN  IF unit = "week" /\ IsSet(weekDays) /\ Len(Get(weekDays)) > 0 THEN
            LET days == Get(weekDays)
                dayList == JoinDayNames(days)
            IN  IF Len(days) = 5 /\ \A i \in 1 .. 5 : days[i] = i
                THEN IF interval = 1 THEN "Weekdays"
                     ELSE "Every " \o ToString(interval) \o " weeks (weekdays)"
                ELSE IF Len(days) = 2 /\ Includes(days, 0) /\ Includes(days, 6)
                THEN IF interval = 1 THEN "Weekends"
                     ELSE "Every " \o ToString(interval) \o " weeks (weekends)"
                ELSE IF interval = 1 THEN "Every " \o dayList
                     ELSE "Every " \o ToString(interval) \o " weeks on " \o dayList
        ELSE IF IsSet(monthDay) /\ Get(monthDay) # 0 THEN
            LET suffix == getOrdinalSuffix(Get(monthDay))
            IN  IF interval = 1
                THEN ToString(Get(monthDay)) \o suffix \o " of each month"
                ELSE ToString(Get(monthDay)) \o suffix \o " every "
                         \o ToString(interval) \o " months"
        ELSE IF interval = 1 THEN
            CASE unit = "day" -> "Daily"
              [] unit = "week" -> "Weekly"
              [] unit = "month" -> "Monthly"
              [] unit = "year" -> "Yearly"
        ELSE IF interval = 2 THEN
            CASE unit = "day" -> "Every other day"
              [] unit = "week" -> "Biweekly"
              [] unit = "month" -> "Bimonthly"
              [] unit = "year" -> "Biannual"
        ELSE
            LET unitLabel == CASE unit = "day" -> "days"
                               [] unit = "week" -> "weeks"
                               [] unit = "month" -> "months"
                               [] unit = "year" -> "years"
            IN  "Every " \o ToString(interval) \o " " \o unitLabel

\* !recurrence holds for null and for ''.
getRecurrenceDescription(r) ==
    IF r.type = "null" \/ r = Legacy("") THEN ""
    ELSE IF isLegacyRecurrence(r) THEN
        CASE r.value = "daily" -> "Daily"
          [] r.value = "weekly" -> "Weekly"
          [] r.value = "monthly" -> "Monthly"
          [] r.value = "yearly" -> "Yearly"
    ELSE
    LET interval == r.interval
        unit == r.unit
        weekDays == r.weekDays
        monthDay == r.monthDay
    IN  IF unit = "week" /\ IsSet(weekDays) /\ Len(Get(weekDays)) > 0 THEN
            LET days == Get(weekDays)
                dayList == JoinDayNames(days)
            IN  IF Len(days) = 5 /\ \A i \in 1 .. 5 : days[i] = i
                THEN IF interval = 1 THEN "Weekdays"
                     ELSE "Every " \o ToString(interval) \o " weeks (weekdays)"
                ELSE IF Len(days) = 2 /\ Includes(days, 0) /\ Includes(days, 6)
                THEN IF interval = 1 THEN "Weekends"
                     ELSE "Every " \o ToString(interval) \o " weeks (weekends)"
                ELSE IF interval = 1 THEN "Every " \o dayList
                     ELSE "Every " \o ToString(interval) \o " weeks on " \o dayList
        ELSE IF unit = "month" /\ IsSet(monthDay) /\ Get(monthDay) # 0 THEN
            LET suffix == getOrdinalSuffix(Get(monthDay))
            IN  IF interval = 1
                THEN ToString(Get(monthDay)) \o suffix \o " of each month"
                ELSE ToString(Get(monthDay)) \o suffix \o " every "
                         \o ToString(interval) \o " months"
        ELSE IF interval = 1 THEN
            CASE unit = "day" -> "Daily"
              [] unit = "week" -> "Weekly"
              [] unit = "month" -> "Monthly"
              [] unit = "year" -> "Yearly"
        ELSE IF interval = 2 THEN
            CASE unit = "day" -> "Every other day"
              [] unit = "week" -> "Biweekly"
              [] unit = "month" -> "Bimonthly"
              [] unit = "year" -> "Biannual"
        ELSE
            LET unitLabel == CASE unit = "day" -> "days"
                               [] unit = "week" -> "weeks"
                               [] unit = "month" -> "months"
                               [] unit = "year" -> "years"
            IN  "Every " \o ToString(interval) \o " " \o unitLabel

(***************************************************************************)
(* Edit form <-> recurrence.                                               *)
(***************************************************************************)
defaultRecurrenceForm ==
    [enabled |-> FALSE, preset |-> Undefined, interval |-> 1, unit |-> "week",
     weekDays |-> <<>>, monthDay |-> Undefined, useSpecificMonthDay |-> FALSE]

\* The edit form of a closed modal, without its recurrence.
defaultEditForm ==
    [text |-> "", description |-> "", deadline |-> Undefined, isUrgent |-> FALSE,
     isImportant |-> FALSE, complexity |-> "medium"]

\* No handler of SettingsModal awaits.
NoCall == [handler |-> "", step |-> ""]

\* The state of App, but for its tasks, after construction.
AppIdle ==
    /\ isFabOpen = FALSE
    /\ showAddModal = FALSE
    /\ addForm = ""
    /\ isAddingTask = FALSE
    /\ isAiSorting = FALSE
    /\ error = ""
    /\ editingTask = Undefined
    /\ editForm = defaultEditForm
    /\ allTasks = <<>>

\* The state of SettingsModal after construction.
SettingsMounted ==
    /\ settings = Undefined
    /\ loading = TRUE
    /\ saving = FALSE
    /\ settingsError = Undefined
    /\ settingsCall = NoCall
    /\ isOpen = FALSE
    /\ loads = 0
    /\ tests = 0

\* SettingsModal after construction in a desktop browser with push
\* notifications; App reads neither value.
SettingsIdle ==
    /\ SettingsMounted
    /\ pushSupported = TRUE
    /\ iosNotInstalled = FALSE

\* Faulty variant: the weekDays and the monthDay of the form are kept whatever
\* the unit is.
buildRecurrenceConfigKeeping(formState) ==
    IF ~formState.enabled THEN Null
    ELSE IF IsSet(formState.preset) /\ Get(formState.preset) # "custom"
    THEN Legacy(Get(formState.preset))
    ELSE Config(formState.interval, formState.unit,
                IF Len(formState.weekDays) > 0
                THEN Some(formState.weekDays) ELSE Undefined,
                IF /\ formState.useSpecificMonthDay
                   /\ IsSet(formState.monthDay)
                   /\ Get(formState.monthDay) # 0
                THEN formState.monthDay ELSE Undefined)

buildRecurrenceConfig(formState) ==
    IF ~formState.enabled THEN Null
    ELSE IF IsSet(formState.preset) /\ Get(formState.preset) # "custom"
    THEN Legacy(Get(formState.preset))
    ELSE Config(formState.interval, formState.unit,
                IF formState.unit = "week" /\ Len(formState.weekDays) > 0
                THEN Some(formState.weekDays) ELSE Undefined,
                IF /\ formState.unit = "month"
                   /\ formState.useSpecificMonthDay
                   /\ IsSet(formState.monthDay)
                   /\ Get(formState.monthDay) # 0
                THEN formState.monthDay ELSE Undefined)

unitMap(p) ==
    CASE p = "daily" -> "day"
      [] p = "weekly" -> "week"
      [] p = "monthly" -> "month"
      [] p = "yearly" -> "year"

\* Faulty variant: the month-day checkbox is left unticked for a flexible spec.
parseRecurrenceToFormStateUnticked(r) ==
    IF r.type = "null" \/ r = Legacy("") THEN defaultRecurrenceForm
    ELSE IF isLegacyRecurrence(r) THEN
        [enabled |-> TRUE, preset |-> Some(r.value), interval |-> 1,
         unit |-> unitMap(r.value), weekDays |-> <<>>, monthDay |-> Undefined,
         useSpecificMonthDay |-> FALSE]
    ELSE
        [enabled |-> TRUE, preset |-> Some("custom"), interval |-> r.interval,
         unit |-> r.unit,
         weekDays |-> IF IsSet(r.weekDays) THEN Get(r.weekDays) ELSE <<>>,
         monthDay |-> IF IsSet(r.monthDay) THEN r.monthDay ELSE Undefined,
         useSpecificMonthDay |-> FALSE]

\* Faulty variant: a flexible spec of interval 1 with no weekDays and no monthDay is
\* shown as the preset of its unit.
parseRecurrenceToFormStateCollapsing(r) ==
    IF r.type = "null" \/ r = Legacy("") THEN defaultRecurrenceForm
    ELSE IF isLegacyRecurrence(r) THEN
        [enabled |-> TRUE, preset |-> Some(r.value), interval |-> 1,
         unit |-> unitMap(r.value), weekDays |-> <<>>, monthDay |-> Undefined,
         useSpecificMonthDay |-> FALSE]
    ELSE
        [enabled |-> TRUE,
         preset |-> IF r.interval = 1 /\ ~IsSet(r.weekDays) /\ ~IsSet(r.monthDay)
                    THEN Some(CHOOSE p \in {"daily", "weekly", "monthly", "yearly"} :
                                  unitMap(p) = r.unit)
                    ELSE Some("custom"),
         interval |-> r.interval,
         unit |-> r.unit,
         weekDays |-> IF IsSet(r.weekDays) THEN Get(r.weekDays) ELSE <<>>,
         monthDay |-> IF IsSet(r.monthDay) THEN r.monthDay ELSE Undefined,
         useSpecificMonthDay |-> IsDefined(r.monthDay)]

\* Faulty variant: a legacy pattern is shown as a custom recurrence.
parseRecurrenceToFormStateCustom(r) ==
    IF r.type = "null" \/ r = Legacy("") THEN defaultRecurrenceForm
    ELSE IF isLegacyRecurrence(r) THEN
        [enabled |-> TRUE, preset |-> Some("custom"), interval |-> 1,
         unit |-> unitMap(r.value), weekDays |-> <<>>, monthDay |-> Undefined,
         useSpecificMonthDay |-> FALSE]
    ELSE
        [enabled |-> TRUE, preset |-> Some("custom"), interval |-> r.interval,
         unit |-> r.unit,
         weekDays |-> IF IsSet(r.weekDays) THEN Get(r.weekDays) ELSE <<>>,
         monthDay |-> IF IsSet(r.monthDay) THEN r.monthDay ELSE Undefined,
         useSpecificMonthDay |-> IsDefined(r.monthDay)]

\* !recurrence holds for null and for ''; monthDay ?? null keeps a number;
\* monthDay !== undefined also holds for null.
parseRecurrenceToFormState(r) ==
    IF r.type = "null" \/ r = Legacy("") THEN defaultRecurrenceForm
    ELSE IF isLegacyRecurrence(r) THEN
        [enabled |-> TRUE, preset |-> Some(r.value), interval |-> 1,
         unit |-> unitMap(r.value), weekDays |-> <<>>, monthDay |-> Undefined,
         useSpecificMonthDay |-> FALSE]
    ELSE
        [enabled |-> TRUE, preset |-> Some("custom"), interval |-> r.interval,
         unit |-> r.unit,
         weekDays |-> IF IsSet(r.weekDays) THEN Get(r.weekDays) ELSE <<>>,
         monthDay |-> IF IsSet(r.monthDay) THEN r.monthDay ELSE Undefined,
         useSpecificMonthDay |-> IsDefined(r.monthDay)]

(***************************************************************************)
(* Inputs.                                                                 *)
(***************************************************************************)
SampleDays == {1, 15, 28, 29, 30, 31}

\* The start, the middle and the end of every month.
MonthSamples ==
    {s \in [year : FirstYear .. LastYear, month : 1 .. 12, day : SampleDays] :
        IsDateString(s)}

\* Two whole Sunday-to-Saturday weeks across the turn of the first year
\* (the first one starts on the last Sunday on or before December 24th).
Fortnight ==
    LET dec24 == MakeDay(FirstYear, 11, 24)
        sunday == dec24 - ((dec24 + 4) % 7)
    IN  {toISODate(MakeDate(sunday + k, 0)).value : k \in 0 .. 13}

\* The days on which daylight saving time starts in America/New_York.
DaylightDays == {StringOfDay(Day(DaylightStarts(y))) : y \in FirstYear .. LastYear}

DateStrings == MonthSamples \cup Fortnight \cup DaylightDays

\* A string the Date constructor cannot parse (month 13).
InvalidDateString == [year |-> FirstYear, month |-> 13, day |-> 1]

Deadlines == {Undefined, Some(InvalidDateString)} \cup {Some(s) : s \in DateStrings}

\* The days the clock may show.
Today == {MakeDate(MakeDay(LastYear, 1, 28), MinutesPerDay - 1),
          MakeDate(MakeDay(LastYear, 11, 31), 120)}

Intervals == (1 .. MaxInterval) \cup {INTERVAL_LIMIT}

\* The elements of a set of weekdays in ascending order.
RECURSIVE Ascending(_)
Ascending(S) ==
    IF S = {} THEN <<>>
    ELSE LET m == CHOOSE x \in S : \A y \in S : x <= y
         IN  <<m>> \o Ascending(S \ {m})

Reverse(s) == [i \in 1 .. Len(s) |-> s[Len(s) + 1 - i]]

\* Every non-empty set of weekdays in ascending order, and out of order the
\* two-day sets and the working week.
WeekDayLists ==
    LET asc == {Ascending(S) : S \in (SUBSET (0 .. 6)) \ {{}}}
    IN  asc \cup {Reverse(s) : s \in {a \in asc : Len(a) = 2}}
            \cup {<<5, 4, 3, 2, 1>>, <<3, 1, 5>>}

MonthDays == 1 .. 31

Recurrences ==
    {Null}
    \cup {Legacy(p) : p \in LegacyPatterns}
    \cup {Config(i, u, Undefined, Undefined) : i \in Intervals, u \in RecurrenceUnits}
    \cup {Config(i, "week", Some(wd), Undefined) :
              i \in Intervals, wd \in WeekDayLists \cup {<<>>}}
    \cup {Config(i, "month", Undefined, Some(md)) : i \in Intervals, md \in MonthDays}
    \cup {Config(i, u, Some(<<1, 3>>), Some(15)) : i \in Intervals, u \in RecurrenceUnits}

NotCalled == [threw |-> FALSE, value |-> NoDate, error |-> ""]

(***************************************************************************)
(* Untyped JSON values.  parsed.recurrence comes out of JSON.parse of the  *)
(* AI response, so it can be any JSON value; a value is tagged by its kind.*)
(* A number is counted in halves, so that 2.5 is JNumber(5) and the        *)
(* integer n is JNumber(2 * n).  An absent property reads as undefined.    *)
(***************************************************************************)
JUndefined == [kind |-> "undefined"]
JNull == [kind |-> "null"]
JString(s) == [kind |-> "string", value |-> s]
JBoolean(b) == [kind |-> "boolean", truth |-> b]
JNumber(halves) == [kind |-> "number", halves |-> halves]
JInteger(n) == JNumber(2 * n)
JArray(items) == [kind |-> "array", items |-> items]
JObject(interval, unit, weekDays, monthDay) ==
    [kind |-> "object", interval |-> interval, unit |-> unit,
     weekDays |-> weekDays, monthDay |-> monthDay]

\* typeof x
typeof(x) == IF x.kind \in {"null", "array"} THEN "object" ELSE x.kind

\* Math.floor of a number counted in halves, as a number counted in halves.
MathFloor(x) == JInteger(x.halves \div 2)
MathMin(x, y) == IF x.halves <= y.halves THEN x ELSE y
MathMax(x, y) == IF x.halves >= y.halves THEN x ELSE y

\* The property of an object; an array has none of the four.
Property(rec, name) ==
    IF rec.kind = "object" THEN rec[name] ELSE JUndefined

\* JSON.parse(JSON.stringify(x)): an undefined property is left out (and reads
\* as undefined again), an undefined array item comes back as null.
RECURSIVE JsonItems(_)
JsonItems(items) ==
    IF items = <<>> THEN <<>>
    ELSE <<IF Head(items).kind = "undefined" THEN JNull
           ELSE IF Head(items).kind = "array"
                THEN JArray(JsonItems(Head(items).items))
                ELSE Head(items)>>
         \o JsonItems(Tail(items))

JsonRoundTrip(x) ==
    IF x.kind = "array" THEN JArray(JsonItems(x.items))
    ELSE IF x.kind = "object"
    THEN JObject(x.interval, x.unit,
                 IF x.weekDays.kind = "array"
                 THEN JArray(JsonItems(x.weekDays.items)) ELSE x.weekDays,
                 x.monthDay)
    ELSE x

(***************************************************************************)
(* validateRecurrence (inside addTask).                                    *)
(***************************************************************************)
validLegacy == {"daily", "weekly", "monthly", "yearly"}
validUnits == {"day", "week", "month", "year"}

\* config.weekDays.filter(d => typeof d === 'number' && d >= 0 && d <= 6)
IsValidDay(d) == typeof(d) = "number" /\ d.halves >= 0 /\ d.halves <= 2 * 6

\* [...new Set(validDays)].sort((a, b) => a - b)
UniqueSorted(validDays) ==
    LET halves == Ascending({validDays[i].halves : i \in 1 .. Len(validDays)})
    IN  [i \in 1 .. Len(halves) |-> JNumber(halves[i])]

\* Math.max(1, Math.min(99, Math.floor(config.interval)))
ClampInterval(interval) ==
    MathMax(JInteger(1), MathMin(JInteger(INTERVAL_LIMIT), MathFloor(interval)))

\* validated.weekDays: the valid days without duplicates in ascending order,
\* left out when config.weekDays is no array or holds no valid day.
ValidatedWeekDays(weekDays) ==
    LET validDays == IF weekDays.kind = "array"
                     THEN SelectSeq(weekDays.items, IsValidDay)
                     ELSE <<>>
    IN  IF Len(validDays) > 0 THEN JArray(UniqueSorted(validDays)) ELSE JUndefined

\* typeof config.monthDay === 'number' && config.monthDay >= 1 && config.monthDay <= 31
IsValidMonthDay(monthDay) ==
    typeof(monthDay) = "number" /\ monthDay.halves >= 2 * 1 /\ monthDay.halves <= 2 * 31

\* Faulty variant: every positive interval is admitted and the floor is not
\* raised to 1, so an interval below 1 is stored as 0.
validateRecurrenceUnclamped(rec) ==
    IF rec.kind \in {"null", "undefined"} THEN JNull
    ELSE IF typeof(rec) = "string" THEN
        IF rec.value \in validLegacy THEN rec ELSE JNull
    ELSE IF typeof(rec) = "object" THEN
        LET interval == Property(rec, "interval")
            unit == Property(rec, "unit")
            monthDay == Property(rec, "monthDay")
        IN  IF typeof(interval) # "number" \/ interval.halves <= 0 THEN JNull
            ELSE IF ~(unit.kind = "string" /\ unit.value \in validUnits) THEN JNull
            ELSE JObject(MathMin(JInteger(INTERVAL_LIMIT), MathFloor(interval)),
                         unit,
                         ValidatedWeekDays(Property(rec, "weekDays")),
                         IF IsValidMonthDay(monthDay) THEN monthDay ELSE JUndefined)
    ELSE JNull

\* Faulty variant: a monthDay that is present and not valid rejects the whole
\* recurrence.
validateRecurrenceRejecting(rec) ==
    IF rec.kind \in {"null", "undefined"} THEN JNull
    ELSE IF typeof(rec) = "string" THEN
        IF rec.value \in validLegacy THEN rec ELSE JNull
    ELSE IF typeof(rec) = "object" THEN
        LET interval == Property(rec, "interval")
            unit == Property(rec, "unit")
            monthDay == Property(rec, "monthDay")
        IN  IF typeof(interval) # "number" \/ interval.halves < 2 * 1 THEN JNull
            ELSE IF ~(unit.kind = "string" /\ unit.value \in validUnits) THEN JNull
            ELSE IF monthDay.kind # "undefined" /\ ~IsValidMonthDay(monthDay) THEN JNull
            ELSE JObject(ClampInterval(interval),
                         unit,
                         ValidatedWeekDays(Property(rec, "weekDays")),
                         IF IsValidMonthDay(monthDay) THEN monthDay ELSE JUndefined)
    ELSE JNull

validateRecurrence(rec) ==
    IF rec.kind \in {"null", "undefined"} THEN JNull
    ELSE IF typeof(rec) = "string" THEN
        IF rec.value \in validLegacy THEN rec ELSE JNull
    ELSE IF typeof(rec) = "object" THEN
        LET interval == Property(rec, "interval")
            unit == Property(rec, "unit")
            monthDay == Property(rec, "monthDay")
        IN  IF typeof(interval) # "number" \/ interval.halves < 2 * 1 THEN JNull
            ELSE IF ~(unit.kind = "string" /\ unit.value \in validUnits) THEN JNull
            ELSE JObject(ClampInterval(interval),
                         unit,
                         ValidatedWeekDays(Property(rec, "weekDays")),
                         IF IsValidMonthDay(monthDay) THEN monthDay ELSE JUndefined)
    ELSE JNull

(***************************************************************************)
(* Raw recurrences an AI response can carry.                               *)
(***************************************************************************)
MaxRawDays == 2

\* Items of a raw weekDays array: -1, 0, 2.5, 3, 6, 7 and the string "1".
RawDayItems ==
    {JInteger(-1), JInteger(0), JNumber(5), JInteger(3), JInteger(6), JInteger(7),
     JString("1")}

RECURSIVE ArraysOf(_, _)
ArraysOf(items, n) ==
    IF n = 0 THEN {<<>>}
    ELSE LET shorter == ArraysOf(items, n - 1)
         IN  shorter \cup {Append(a, x) : a \in {b \in shorter : Len(b) = n - 1},
                                          x \in items}

RawWeekDays ==
    {JUndefined, JNull, JString("1,3")}
        \cup {JArray(a) : a \in ArraysOf(RawDayItems, MaxRawDays)}

\* absent, "2", 0, 0.5, 1, 2.5, 99, 99.5 and 100
RawIntervals ==
    {JUndefined, JString("2"), JInteger(0), JNumber(1), JInteger(1), JNumber(5),
     JInteger(INTERVAL_LIMIT), JNumber(2 * INTERVAL_LIMIT + 1),
     JInteger(INTERVAL_LIMIT + 1)}

RawUnits ==
    {JUndefined, JNumber(2), JString("Week"), JString("weeks")}
        \cup {JString(u) : u \in validUnits}

\* absent, null, 0, 1, 15.5, 31, 32 and "15"
RawMonthDays ==
    {JUndefined, JNull, JInteger(0), JInteger(1), JNumber(31), JInteger(31),
     JInteger(32), JString("15")}

RawRecurrences ==
    {JNull, JUndefined, JInteger(2), JBoolean(TRUE), JString("Daily"),
     JString("hourly"), JArray(<<>>), JArray(<<JString("daily")>>)}
        \cup {JString(p) : p \in validLegacy}
        \cup {JObject(i, u, wd, md) : i \in RawIntervals, u \in RawUnits,
                                      wd \in RawWeekDays, md \in RawMonthDays}

(***************************************************************************)
(* The task store.                                                         *)
(***************************************************************************)
MaxClock == 4
MaxTasks == 4

\* The first millisecond of a session; the tasks read from localStorage were
\* created before it.
FirstClock == 3

Quadrants ==
    {"urgent-important", "not-urgent-important", "urgent-not-important",
     "not-urgent-not-important"}

Task(id, text, descr, deadline, completed, completedAt, rec, complexity) ==
    [id |-> id, text |-> text, description |-> descr, deadline |-> deadline,
     completed |-> completed, completedAt |-> completedAt, recurrence |-> rec,
     complexity |-> complexity]

\* The initial tasks state when nothing is saved.
NoTasks == [q \in Quadrants |-> <<>>]

\* What a setTasks updater does: it returns the next state or throws.
Updated(next) == [threw |-> FALSE, tasks |-> next, error |-> ""]
Failed(prev, message) == [threw |-> TRUE, tasks |-> prev, error |-> message]

\* prev[quadrant].find(t => t.id === taskId): the index of the first match,
\* 0 if there is none.
FindIndex(list, taskId) ==
    LET found == {i \in 1 .. Len(list) : list[i].id = taskId}
    IN  IF found = {} THEN 0
        ELSE CHOOSE i \in found : \A j \in found : i <= j

\* The updater of toggleComplete(quadrant, taskId), with the time new Date()
\* returns and the millisecond Date.now() returns.  task.recurrence is falsy
\* when it is absent and when it is ''.
toggleComplete(prev, quadrant, taskId, today, dateNow) ==
    LET list == prev[quadrant]
        index == FindIndex(list, taskId)
    IN  IF index = 0 THEN Updated(prev)
        ELSE
        LET task == list[index]
            isCompleting == ~task.completed
            todayString == toISODate(today).value
        IN  IF isCompleting /\ task.recurrence # Null /\ task.recurrence # Legacy("")
            THEN
                LET nextDeadlineOf == calculateNextDeadline(task.deadline,
                                                            task.recurrence, today)
                    nextTask == Task(dateNow, task.text, task.description,
                                     Some(nextDeadlineOf.value), FALSE, Undefined,
                                     task.recurrence, task.complexity)
                    marked == [i \in 1 .. Len(list) |->
                                  IF list[i].id = taskId
                                  THEN [list[i] EXCEPT !.completed = TRUE,
                                                       !.completedAt = Some(todayString)]
                                  ELSE list[i]]
                IN  IF nextDeadlineOf.threw THEN Failed(prev, nextDeadlineOf.error)
                    ELSE Updated([prev EXCEPT ![quadrant] = Append(marked, nextTask)])
            ELSE
                Updated([prev EXCEPT ![quadrant] =
                    [i \in 1 .. Len(list) |->
                        IF list[i].id = taskId
                        THEN [list[i] EXCEPT
                                 !.completed = ~list[i].completed,
                                 !.completedAt = IF isCompleting
                                                 THEN Some(todayString)
                                                 ELSE Undefined]
                        ELSE list[i]]])

\* A date string inside the first year.
SeedDeadline == [year |-> FirstYear, month |-> 12, day |-> 27]

\* The task lists read from localStorage: one task, or two tasks in one
\* quadrant or in two.  The first task is recurring or not, with a deadline
\* that is absent, a date or unparseable; the second recurs monthly.
SeedFirstTasks ==
    {Task(1, "a", Some("note"), deadline, FALSE, Undefined, rec, Some("hard")) :
        deadline \in {Undefined, Some(SeedDeadline), Some(InvalidDateString)},
        rec \in {Null, Legacy("daily"), Config(2, "week", Some(<<1, 3>>), Undefined)}}

SeedSecondTask ==
    Task(2, "b", Undefined, Some(SeedDeadline), FALSE, Undefined, Legacy("monthly"),
         Undefined)

SavedTasks ==
    {[NoTasks EXCEPT !["urgent-important"] = <<first>>] : first \in SeedFirstTasks}
    \cup {[NoTasks EXCEPT !["urgent-important"] = <<first, SeedSecondTask>>] :
              first \in SeedFirstTasks}
    \cup {[NoTasks EXCEPT !["urgent-important"] = <<first>>,
                          !["not-urgent-important"] = <<SeedSecondTask>>] :
              first \in SeedFirstTasks}

IsUrgentQuadrant(quadrant) == quadrant \in {"urgent-important", "urgent-not-important"}
IsImportantQuadrant(quadrant) ==
    quadrant \in {"urgent-important", "not-urgent-important"}

\* The edit form openEditModal(task, quadrant) sets, but for its recurrence;
\* an absent deadline stands for the '' of the form.
openEditModal(task, quadrant) ==
    [text |-> task.text,
     description |-> IF IsSet(task.description) THEN Get(task.description) ELSE "",
     deadline |-> IF IsSet(task.deadline) /\ Get(task.deadline) # EmptyString
                  THEN task.deadline ELSE Undefined,
     isUrgent |-> IsUrgentQuadrant(quadrant),
     isImportant |-> IsImportantQuadrant(quadrant),
     complexity |-> IF IsSet(task.complexity) THEN Get(task.complexity) ELSE "medium"]

\* The only task of the store, with the deadline and the recurrence under
\* study.
StudiedTask(deadline, rec) ==
    Task(1, "a", Undefined, deadline, FALSE, Undefined, rec, Some("easy"))

(***************************************************************************)
(* The state machine: the store holds one task; its (deadline, recurrence) *)
(* is handed to the calculator, or the task is opened in the edit modal    *)
(* and its recurrence built back from the form.                            *)
(***************************************************************************)
HasWeekDays(r) == r.type = "object" /\ IsSet(r.weekDays) /\ Len(Get(r.weekDays)) > 0

\* Recurrences with a weekday list start from the days of the fortnight (or
\* from a missing or unparseable deadline), every other recurrence from every
\* date string.
Init ==
    /\ pc = "input"
    /\ now \in Today
    /\ tz \in TimeZones
    /\ currentDeadline \in Deadlines
    /\ recurrence \in Recurrences
    /\ HasWeekDays(recurrence) =>
           currentDeadline \in {Undefined, Some(InvalidDateString)}
                                  \cup {Some(s) : s \in Fortnight}
    /\ nextDeadline = NotCalled
    /\ form = defaultRecurrenceForm
    /\ rebuilt = Null
    /\ raw = JUndefined
    /\ validated = JNull
    /\ revalidated = JNull
    /\ description = ""
    /\ tasks = [NoTasks EXCEPT !["urgent-important"] =
                    <<StudiedTask(currentDeadline, recurrence)>>]
    /\ clock = FirstClock
    /\ failure = ""
    /\ AppIdle
    /\ SettingsIdle

\* toggleComplete's call of calculateNextDeadline(task.deadline, task.recurrence).
CalculateNextDeadline ==
    /\ pc = "input"
    /\ nextDeadline' = calculateNextDeadline(currentDeadline, recurrence, now)
    /\ pc' = "calculated"
    /\ UNCHANGED <<now, tz, currentDeadline, recurrence, form, rebuilt, validatorVars,
                   description,
                   storeVars, appVars, settingsVars>>

\* openEditModal(task, quadrant), a click on the task: the modal opens on
\* the task and the form is filled from it, the recurrence form by
\* parseRecurrenceToFormState(task.recurrence || null).
ParseRecurrenceToFormState ==
    /\ pc = "input"
    /\ \E quadrant \in Quadrants : \E i \in 1 .. Len(tasks[quadrant]) :
           LET task == tasks[quadrant][i]
           IN  /\ editingTask' = Some([task |-> task, quadrant |-> quadrant])
               /\ editForm' = openEditModal(task, quadrant)
               /\ form' = parseRecurrenceToFormState(task.recurrence)
    /\ isFabOpen' = FALSE
    /\ pc' = "parsed"
    /\ UNCHANGED <<now, tz, currentDeadline, recurrence, nextDeadline, rebuilt,
                   validatorVars, description, storeVars, showAddModal, addForm,
                   isAddingTask, isAiSorting, error, allTasks, settingsVars>>

\* saveTaskEdit: the recurrence is built back from the form.
BuildRecurrenceConfig ==
    /\ pc = "parsed"
    /\ rebuilt' = buildRecurrenceConfig(form)
    /\ pc' = "built"
    /\ UNCHANGED <<now, tz, currentDeadline, recurrence, nextDeadline, form,
                   validatorVars, description,
                   storeVars, appVars, settingsVars>>

Next ==
    \/ CalculateNextDeadline
    \/ ParseRecurrenceToFormState
    \/ BuildRecurrenceConfig

Spec == Init /\ [][Next]_vars

(***************************************************************************)
(* The validator: addTask validates the recurrence of the AI response; the *)
(* stored value is written as JSON and validated once more when read back. *)
(***************************************************************************)
InitValidator ==
    /\ pc = "raw"
    /\ raw \in RawRecurrences
    /\ validated = JNull
    /\ revalidated = JNull
    /\ now \in {d \in Today : \A e \in Today : d <= e}
    /\ tz \in TimeZones
    /\ currentDeadline = Undefined
    /\ recurrence = Null
    /\ nextDeadline = NotCalled
    /\ form = defaultRecurrenceForm
    /\ rebuilt = Null
    /\ description = ""
    /\ tasks = NoTasks
    /\ clock = FirstClock
    /\ failure = ""
    /\ AppIdle
    /\ SettingsIdle

\* addTask: const recurrence = validateRecurrence(parsed.recurrence)
ValidateRecurrence ==
    /\ pc = "raw"
    /\ validated' = validateRecurrence(raw)
    /\ pc' = "validated"
    /\ UNCHANGED <<now, tz, currentDeadline, recurrence, nextDeadline, form, rebuilt,
                   raw, revalidated, description,
                   storeVars, appVars, settingsVars>>

\* The validated value goes through JSON and the validator again.
Revalidate ==
    /\ pc = "validated"
    /\ revalidated' = validateRecurrence(JsonRoundTrip(validated))
    /\ pc' = "revalidated"
    /\ UNCHANGED <<now, tz, currentDeadline, recurrence, nextDeadline, form, rebuilt,
                   raw, validated, description,
                   storeVars, appVars, settingsVars>>

NextValidator ==
    \/ ValidateRecurrence
    \/ Revalidate

SpecValidator == InitValidator /\ [][NextValidator]_vars

(***************************************************************************)
(* The description of a stored recurrence.                                 *)
(***************************************************************************)
\* The recurrences the program stores: the validator and the weekday buttons
\* keep weekDays in ascending order.
StoredRecurrences ==
    {r \in Recurrences :
        HasWeekDays(r) => Get(r.weekDays) = SortAscending(Get(r.weekDays))}

\* The state every specification gives to the variables it does not use,
\* but for the store.
Unused ==
    /\ now \in {d \in Today : \A e \in Today : d <= e}
    /\ tz \in TimeZones
    /\ currentDeadline = Undefined
    /\ nextDeadline = NotCalled
    /\ raw = JUndefined
    /\ validated = JNull
    /\ revalidated = JNull
    /\ description = ""
    /\ clock = FirstClock
    /\ failure = ""
    /\ AppIdle
    /\ SettingsIdle

\* Nothing is saved.
Idle ==
    /\ Unused
    /\ tasks = NoTasks

InitDescription ==
    /\ pc = "input"
    /\ recurrence \in StoredRecurrences
    /\ form = defaultRecurrenceForm
    /\ rebuilt = Null
    /\ Idle

GetRecurrenceDescription ==
    /\ pc = "input"
    /\ description' = getRecurrenceDescription(recurrence)
    /\ pc' = "described"
    /\ UNCHANGED <<now, tz, currentDeadline, recurrence, nextDeadline, form, rebuilt,
                   validatorVars,
                   storeVars, appVars, settingsVars>>

SpecDescription == InitDescription /\ [][GetRecurrenceDescription]_vars

(***************************************************************************)
(* The recurrence controls of the edit modal.  openEditModal fills the     *)
(* form from the task; the controls change it; the preview shows the       *)
(* description of the recurrence built from it; saveTaskEdit builds it.    *)
(***************************************************************************)
\* Any value of the type RecurrenceFormState, for buildRecurrenceConfig taken
\* as a function of the form alone.
FormStates ==
    [enabled : BOOLEAN,
     preset : {Undefined, Some("custom")} \cup {Some(p) : p \in LegacyPatterns},
     interval : {1, MaxInterval, INTERVAL_LIMIT},
     unit : RecurrenceUnits,
     weekDays : {<<>>, <<1, 3>>, <<0, 6>>},
     monthDay : {Undefined, Some(1), Some(31)},
     useSpecificMonthDay : BOOLEAN]

InitBuild ==
    /\ pc = "parsed"
    /\ form \in FormStates
    /\ recurrence = Null
    /\ rebuilt = Null
    /\ Idle

SpecBuild == InitBuild /\ [][BuildRecurrenceConfig]_vars

\* The values of the recurrence select.
RecurrenceOptions == {"none", "custom"} \cup LegacyPatterns

\* What the interval input can hold: text that parseInt cannot read (absent),
\* or an integer; max="99" does not stop a larger number from being typed.
IntervalInputs ==
    {Undefined, Some(-5), Some(0), Some(INTERVAL_LIMIT + 1)}
        \cup {Some(i) : i \in Intervals}

\* The tasks whose edit modal is opened.
EditedRecurrences ==
    {Null, Legacy("monthly"),
     Config(2, "week", Some(<<1, 3>>), Undefined),
     Config(1, "month", Undefined, Some(31)),
     Config(3, "day", Some(<<1, 3>>), Some(15))}

\* The recurrences of the tasks the page shows: a task is read from
\* localStorage as it was written there, so its weekDays can be in any order.
LoadedRecurrences ==
    EditedRecurrences \cup {Config(1, "week", Some(<<5, 4, 3, 2, 1>>), Undefined)}

InitEdit ==
    /\ pc = "input"
    /\ recurrence \in LoadedRecurrences
    /\ form = defaultRecurrenceForm
    /\ rebuilt = Null
    /\ Unused
    /\ tasks = [NoTasks EXCEPT !["urgent-important"] =
                    <<StudiedTask(currentDeadline, recurrence)>>]

\* The custom controls are rendered.
CustomShown ==
    pc = "parsed" /\ IsSet(editingTask) /\ form.enabled /\ form.preset = Some("custom")

\* onChange of the recurrence select.
SelectRecurrence ==
    /\ pc = "parsed"
    /\ IsSet(editingTask)
    /\ \E value \in RecurrenceOptions :
           form' = IF value = "none" THEN defaultRecurrenceForm
                   ELSE IF value = "custom"
                   THEN [form EXCEPT !.enabled = TRUE, !.preset = Some("custom")]
                   ELSE [enabled |-> TRUE, preset |-> Some(value), interval |-> 1,
                         unit |-> unitMap(value), weekDays |-> <<>>,
                         monthDay |-> Undefined, useSpecificMonthDay |-> FALSE]
    /\ UNCHANGED <<pc, now, tz, currentDeadline, recurrence, nextDeadline, rebuilt,
                   validatorVars, description,
                   storeVars, appVars, settingsVars>>

\* Math.max(1, parseInt(e.target.value) || 1)
IntervalOf(value) ==
    LET parsed == IF IsSet(value) /\ Get(value) # 0 THEN Get(value) ELSE 1
    IN  IF parsed >= 1 THEN parsed ELSE 1

\* onChange of the interval input.
ChangeInterval ==
    /\ CustomShown
    /\ \E value \in IntervalInputs :
           form' = [form EXCEPT !.interval = IntervalOf(value)]
    /\ UNCHANGED <<pc, now, tz, currentDeadline, recurrence, nextDeadline, rebuilt,
                   validatorVars, description,
                   storeVars, appVars, settingsVars>>

\* onChange of the unit select.
ChangeUnit ==
    /\ CustomShown
    /\ \E unit \in RecurrenceUnits :
           form' = [form EXCEPT !.unit = unit, !.weekDays = <<>>,
                                !.monthDay = Undefined,
                                !.useSpecificMonthDay = FALSE]
    /\ UNCHANGED <<pc, now, tz, currentDeadline, recurrence, nextDeadline, rebuilt,
                   validatorVars, description,
                   storeVars, appVars, settingsVars>>

\* newDays of a weekday button.
ToggledWeekDays(currentDays, index) ==
    IF Includes(currentDays, index)
    THEN SelectSeq(currentDays, LAMBDA d : d # index)
    ELSE SortAscending(Append(currentDays, index))

\* onClick of a weekday button.
ToggleWeekDay ==
    /\ CustomShown
    /\ form.unit = "week"
    /\ \E index \in 0 .. 6 :
           form' = [form EXCEPT !.weekDays = ToggledWeekDays(form.weekDays, index)]
    /\ UNCHANGED <<pc, now, tz, currentDeadline, recurrence, nextDeadline, rebuilt,
                   validatorVars, description,
                   storeVars, appVars, settingsVars>>

\* onChange of the "On specific day of month" checkbox.
ToggleSpecificMonthDay ==
    /\ CustomShown
    /\ form.unit = "month"
    /\ LET checked == ~form.useSpecificMonthDay
       IN  form' = [form EXCEPT
                       !.useSpecificMonthDay = checked,
                       !.monthDay = IF checked
                                    THEN IF IsSet(form.monthDay) /\ Get(form.monthDay) # 0
                                         THEN form.monthDay ELSE Some(1)
                                    ELSE Undefined]
    /\ UNCHANGED <<pc, now, tz, currentDeadline, recurrence, nextDeadline, rebuilt,
                   validatorVars, description,
                   storeVars, appVars, settingsVars>>

\* onChange of the month-day select.
SelectMonthDay ==
    /\ CustomShown
    /\ form.unit = "month"
    /\ form.useSpecificMonthDay
    /\ \E day \in MonthDays : form' = [form EXCEPT !.monthDay = Some(day)]
    /\ UNCHANGED <<pc, now, tz, currentDeadline, recurrence, nextDeadline, rebuilt,
                   validatorVars, description,
                   storeVars, appVars, settingsVars>>

\* The recurrence preview of the modal.
RecurrencePreview ==
    /\ pc = "parsed"
    /\ IsSet(editingTask)
    /\ form.enabled
    /\ rebuilt' = buildRecurrenceConfig(form)
    /\ description' = getRecurrenceDescription(buildRecurrenceConfig(form))
    /\ pc' = "previewed"
    /\ UNCHANGED <<now, tz, currentDeadline, recurrence, nextDeadline, form,
                   validatorVars,
                   storeVars, appVars, settingsVars>>

NextEdit ==
    \/ ParseRecurrenceToFormState
    \/ SelectRecurrence
    \/ ChangeInterval
    \/ ChangeUnit
    \/ ToggleWeekDay
    \/ ToggleSpecificMonthDay
    \/ SelectMonthDay
    \/ RecurrencePreview
    \/ BuildRecurrenceConfig

SpecEdit == InitEdit /\ [][NextEdit]_vars

(***************************************************************************)
(* The task store: the tasks are read from localStorage, the clock runs,   *)
(* and the checkbox of a task calls toggleComplete.  An error thrown by    *)
(* the setTasks updater is caught by nothing, so React unmounts the        *)
(* application: no handler runs after it.                                   *)
(***************************************************************************)
InitStore ==
    /\ pc = "store"
    /\ tasks \in SavedTasks
    /\ clock = FirstClock
    /\ failure = ""
    /\ AppIdle
    /\ SettingsIdle
    /\ now \in {d \in Today : \A e \in Today : d <= e}
    /\ tz \in TimeZones
    /\ currentDeadline = Undefined
    /\ recurrence = Null
    /\ nextDeadline = NotCalled
    /\ form = defaultRecurrenceForm
    /\ rebuilt = Null
    /\ raw = JUndefined
    /\ validated = JNull
    /\ revalidated = JNull
    /\ description = ""

\* A millisecond passes, whatever the user sees.
Tick ==
    /\ failure = ""
    /\ clock < MaxClock
    /\ clock' = clock + 1
    /\ UNCHANGED <<pc, now, tz, currentDeadline, recurrence, nextDeadline, form, rebuilt,
                   validatorVars, description, tasks, failure, appVars,
                   settingsVars>>

\* The checkbox of a task: toggleComplete(quadrant, taskId); the click also
\* reaches handleClickOutside, which closes the menu of the floating button.
ToggleCompleteOf(quadrant, taskId) ==
    /\ pc = "store"
    /\ failure = ""
    /\ LET result == toggleComplete(tasks, quadrant, taskId, now, clock)
       IN  /\ Len(result.tasks[quadrant]) <= MaxTasks
           /\ tasks' = result.tasks
           /\ failure' = result.error
    /\ isFabOpen' = FALSE
    /\ UNCHANGED <<pc, now, tz, currentDeadline, recurrence, nextDeadline, form, rebuilt,
                   validatorVars, description, clock, showAddModal, addForm,
                   isAddingTask, isAiSorting, error, editingTask, editForm, allTasks,
                   settingsVars>>

ToggleComplete ==
    \E quadrant \in Quadrants : \E taskId \in 1 .. MaxClock :
        ToggleCompleteOf(quadrant, taskId)

NextStore ==
    \/ Tick
    \/ ToggleComplete

SpecStore == InitStore /\ [][NextStore]_vars

(***************************************************************************)
(* A weekly task on selected weekdays that is completed again and again:   *)
(* the checkbox of the newest occurrence is ticked, a millisecond or more  *)
(* after the previous tick, and toggleComplete appends the next            *)
(* occurrence with the deadline calculateNextDeadline returns.  The user   *)
(* keeps completing, which is the weak fairness of the action.             *)
(***************************************************************************)
MaxCompletions == 7

\* A stored weekDays of two or more days (stored lists are ascending).
SeveralWeekDays == {Ascending(S) : S \in {T \in SUBSET (0 .. 6) : Cardinality(T) >= 2}}

\* The first of the two weeks.
FirstWeek == {s \in Fortnight : \A other \in Fortnight : DayOfString(s) <= DayOfString(other) + 6}

RecurringTask(deadline, rec) ==
    Task(FirstClock, "a", Undefined, Some(deadline), FALSE, Undefined, rec, Undefined)

InitRecur ==
    /\ pc = "store"
    /\ \E deadline \in FirstWeek, interval \in 1 .. MaxInterval, days \in SeveralWeekDays :
           tasks = [NoTasks EXCEPT !["urgent-important"] =
                       <<RecurringTask(deadline,
                                       Config(interval, "week", Some(days), Undefined))>>]
    /\ clock = FirstClock
    /\ failure = ""
    /\ AppIdle
    /\ SettingsIdle
    /\ now \in {d \in Today : \A e \in Today : d <= e}
    /\ tz \in TimeZones
    /\ currentDeadline = Undefined
    /\ recurrence = Null
    /\ nextDeadline = NotCalled
    /\ form = defaultRecurrenceForm
    /\ rebuilt = Null
    /\ raw = JUndefined
    /\ validated = JNull
    /\ revalidated = JNull
    /\ description = ""

\* The occurrences of the task, the newest last.
Occurrences == tasks["urgent-important"]

\* toggleComplete('urgent-important', id of the newest occurrence)
CompleteLatest ==
    /\ pc = "store"
    /\ failure = ""
    /\ Len(Occurrences) <= MaxCompletions
    /\ clock' = clock + 1
    /\ LET latest == Occurrences[Len(Occurrences)]
           result == toggleComplete(tasks, "urgent-important", latest.id, now, clock')
       IN  /\ tasks' = result.tasks
           /\ failure' = result.error
    /\ UNCHANGED <<pc, now, tz, currentDeadline, recurrence, nextDeadline, form, rebuilt,
                   validatorVars, description, appVars, settingsVars>>

\* A completion as the clock shows it.  toggleComplete is defined on every
\* store, so CompleteLatest is enabled exactly when Completion is, and a step
\* of [CompleteLatest]_vars is a Completion exactly if it is a CompleteLatest.
Completion ==
    /\ pc = "store"
    /\ failure = ""
    /\ Len(Occurrences) <= MaxCompletions
    /\ clock' = clock + 1

SpecRecur == InitRecur /\ [][CompleteLatest]_vars /\ WF_clock(Completion)

(***************************************************************************)
(* The handlers of App on the tasks state.  Strings: trim and slice are    *)
(* given on the texts the model types in or receives.                      *)
(***************************************************************************)
\* A title of 101 characters and its first 100 characters.
LongTitle ==
    "0123456789012345678901234567890123456789012345678901234567890123456789012345678901234567890123456789X"
LongTitleHead ==
    "0123456789012345678901234567890123456789012345678901234567890123456789012345678901234567890123456789"

\* The text that stands for the array ["a"], a title that is no string.
ArrayTitle == "[a]"

IsArray(text) == text = ArrayTitle

\* title.slice(0, 100), of a string or of an array (of no more than 100
\* elements).
Slice100(title) == IF Len(title) <= 100 THEN title ELSE LongTitleHead

\* text.trim(), on blank texts and on texts with blanks around them (an
\* array has no trim: see SaveTaskEdit).
trim(text) ==
    CASE text \in {"", " ", "  "} -> ""
      [] text = " a " -> "a"
      [] text = " c" -> "c"
      [] OTHER -> text

\* Object.entries(tasks): the quadrants in the order of their keys.
QuadrantOrder ==
    <<"urgent-important", "not-urgent-important", "urgent-not-important",
      "not-urgent-not-important">>

validComplexities == {"easy", "medium", "hard"}

\* recurrence || undefined, with the recurrence as validateRecurrence
\* returned it (a JSON value).
AsValidated(v) == IF v = JNull THEN JUndefined ELSE v

\* recurrence || undefined for a validated value whose numbers are whole, as
\* the TaskRecurrence the calculator and the edit form take.
AsTaskRecurrence(v) ==
    IF v.kind = "string" THEN Legacy(v.value)
    ELSE IF v.kind = "object"
    THEN Config(v.interval.halves \div 2, v.unit.value,
                IF v.weekDays.kind = "array"
                THEN Some([i \in 1 .. Len(v.weekDays.items) |->
                              v.weekDays.items[i].halves \div 2])
                ELSE Undefined,
                IF v.monthDay.kind = "number"
                THEN Some(v.monthDay.halves \div 2) ELSE Undefined)
    ELSE Null

\* The answer of the AI to addTask: ok is false when the await rejects, the
\* content is empty or JSON.parse throws; title is absent when parsed.title
\* has no slice method (it is neither a string nor an array).
AddResponse(ok, title, descr, deadline, quadrant, rec, complexity) ==
    [ok |-> ok, title |-> title, description |-> descr, deadline |-> deadline,
     quadrant |-> quadrant, recurrence |-> rec, complexity |-> complexity]

\* How the model keeps recurrence || undefined: as the typed TaskRecurrence
\* the other handlers read, or as the JSON value validateRecurrence returned.
StoredAs(typed, v) == IF typed THEN AsTaskRecurrence(v) ELSE AsValidated(v)

\* newTask of addTask; parsed.deadline || undefined keeps a deadline that is
\* a string other than ''.
NewTask(parsed, dateNow, typed) ==
    Task(dateNow,
         Slice100(Get(parsed.title)),
         IF parsed.description = "" THEN Undefined ELSE Some(parsed.description),
         IF IsSet(parsed.deadline) /\ Get(parsed.deadline) # EmptyString
         THEN parsed.deadline ELSE Undefined,
         FALSE,
         Undefined,
         StoredAs(typed, validateRecurrence(parsed.recurrence)),
         Some(IF parsed.complexity \in validComplexities
              THEN parsed.complexity ELSE "medium"))

\* The try block of addTask after its await: the tasks state it sets, or the
\* error its catch block shows.
addTask(prev, parsed, dateNow, typed) ==
    IF ~parsed.ok \/ ~IsSet(parsed.title)
    THEN Failed(prev, "Failed to process task. Please try again.")
    ELSE LET quadrant == IF parsed.quadrant \in Quadrants
                         THEN parsed.quadrant ELSE "not-urgent-not-important"
         IN  Updated([prev EXCEPT
                         ![quadrant] = Append(@, NewTask(parsed, dateNow, typed))])

\* The updater of removeTask(quadrant, taskId).
removeTask(prev, quadrant, taskId) ==
    [prev EXCEPT ![quadrant] = SelectSeq(@, LAMBDA task : task.id # taskId)]

\* newQuadrant of saveTaskEdit.
QuadrantOf(isUrgent, isImportant) ==
    IF isUrgent /\ isImportant THEN "urgent-important"
    ELSE IF ~isUrgent /\ isImportant THEN "not-urgent-important"
    ELSE IF isUrgent /\ ~isImportant THEN "urgent-not-important"
    ELSE "not-urgent-not-important"

\* updatedTask of saveTaskEdit.
updatedTask(editing, edited, recurrenceForm) ==
    [editing.task EXCEPT
        !.text = trim(edited.text),
        !.description = IF trim(edited.description) = "" THEN Undefined
                        ELSE Some(trim(edited.description)),
        !.deadline = edited.deadline,
        !.recurrence = buildRecurrenceConfig(recurrenceForm),
        !.complexity = Some(edited.complexity)]

\* The updater of saveTaskEdit: the task moves to the new quadrant, or is
\* replaced where it is.
saveTaskEdit(prev, editing, edited, recurrenceForm) ==
    LET newQuadrant == QuadrantOf(edited.isUrgent, edited.isImportant)
        updated == updatedTask(editing, edited, recurrenceForm)
    IN  IF newQuadrant # editing.quadrant
        THEN [prev EXCEPT
                 ![editing.quadrant] =
                     SelectSeq(@, LAMBDA task : task.id # editing.task.id),
                 ![newQuadrant] = Append(@, updated)]
        ELSE [prev EXCEPT
                 ![editing.quadrant] =
                     [i \in 1 .. Len(@) |->
                         IF @[i].id = editing.task.id THEN updated ELSE @[i]]]

\* allTasks of autoSortWithAI: every task with its quadrant, quadrant by
\* quadrant.
RECURSIVE CollectTasks(_, _)
CollectTasks(prev, order) ==
    IF order = <<>> THEN <<>>
    ELSE [i \in 1 .. Len(prev[Head(order)]) |->
             [task |-> prev[Head(order)][i], currentQuadrant |-> Head(order)]]
         \o CollectTasks(prev, Tail(order))

\* allTasks.find(t => t.text === text): the index of the first match, 0 if
\* there is none; an array is never === to the array of an answer.
FindText(all, text) ==
    LET found == {i \in 1 .. Len(all) : all[i].task.text = text /\ ~IsArray(text)}
    IN  IF found = {} THEN 0
        ELSE CHOOSE i \in found : \A j \in found : i <= j

\* categorizedTasks.forEach(...) of autoSortWithAI, entry by entry: a known
\* text is pushed to newTasks[categorized.quadrant], which throws a TypeError
\* when the quadrant is none of the four.
RECURSIVE Categorize(_, _, _)
Categorize(newTasks, all, categorizedTasks) ==
    IF categorizedTasks = <<>> THEN Updated(newTasks)
    ELSE LET categorized == Head(categorizedTasks)
             index == FindText(all, categorized.text)
         IN  IF index = 0
             THEN Categorize(newTasks, all, Tail(categorizedTasks))
             ELSE IF categorized.quadrant \notin Quadrants
             THEN Failed(newTasks, "TypeError")
             ELSE LET original == all[index].task
                      complexity == IF categorized.complexity \in validComplexities
                                    THEN categorized.complexity ELSE "medium"
                      pushed == [original EXCEPT !.complexity = Some(complexity)]
                  IN  Categorize([newTasks EXCEPT
                                     ![categorized.quadrant] = Append(@, pushed)],
                                 all, Tail(categorizedTasks))

\* The try block of autoSortWithAI after its await: the tasks state it sets,
\* or the error its catch block shows.  ok is false when the await rejects,
\* the content is empty or JSON.parse throws.
autoSortWithAI(prev, all, ok, categorizedTasks) ==
    LET sorted == Categorize(NoTasks, all, categorizedTasks)
    IN  IF ~ok \/ sorted.threw
        THEN Failed(prev, "Failed to sort tasks with AI. Please try again.")
        ELSE Updated(sorted.tasks)

(***************************************************************************)
(* The application: the page with its tasks, the menu of the floating      *)
(* button, the add modal, the edit modal and the AI sort.  pc tells what   *)
(* the user sees: the page ("store"), the add modal ("adding"), the edit   *)
(* modal ("parsed") or the sorting overlay ("sorting"); a modal or the     *)
(* overlay covers the page, so its handlers run only while pc = "store",   *)
(* and a click on the page while the menu is open also closes the menu.    *)
(* An await is one step to the call and one step to its settlement.        *)
(***************************************************************************)
calculatorVars == <<now, tz, currentDeadline, recurrence, nextDeadline, rebuilt,
                    validatorVars, description>>

\* The tasks read from localStorage: one recurring task, alone or with a
\* second task in another quadrant.
AppSeedTask ==
    Task(1, "a", Some("note"), Some(SeedDeadline), FALSE, Undefined, Legacy("daily"),
         Some("hard"))

AppSavedTasks ==
    {[NoTasks EXCEPT !["urgent-important"] = <<AppSeedTask>>],
     [NoTasks EXCEPT !["urgent-important"] = <<AppSeedTask>>,
                     !["not-urgent-important"] =
                         <<Task(2, "b", Undefined, Undefined, FALSE, Undefined, Null,
                                Undefined)>>]}

\* The one recurring task that is completed in the application recurs
\* daily from a deadline in winter, for which the handlers compute the same
\* dates in every time zone of the model, and no handler of the edit modal
\* reads the clock: both start in one zone.
AppTimeZone == "America/New_York"

InitApp ==
    /\ pc = "store"
    /\ tasks \in AppSavedTasks
    /\ clock = FirstClock
    /\ failure = ""
    /\ now \in {d \in Today : \A e \in Today : d <= e}
    /\ tz = AppTimeZone
    /\ currentDeadline = Undefined
    /\ recurrence = Null
    /\ nextDeadline = NotCalled
    /\ form = defaultRecurrenceForm
    /\ rebuilt = Null
    /\ raw = JUndefined
    /\ validated = JNull
    /\ revalidated = JNull
    /\ description = ""
    /\ AppIdle
    /\ SettingsIdle

\* The most tasks the four quadrants hold together.
MaxAppTasks == 2

\* The number of occurrences that follow the first deadline of a task.
MaxOccurrences == 1

\* The number of tasks of the four quadrants.
TotalTasks(state) == Len(CollectTasks(state, QuadrantOrder))

\* No deadline lies more than MaxOccurrences days after the first one.
WithinOccurrences(state) ==
    \A quadrant \in Quadrants : \A i \in 1 .. Len(state[quadrant]) :
        IsSet(state[quadrant][i].deadline) =>
            DayOfString(Get(state[quadrant][i].deadline))
                <= DayOfString(SeedDeadline) + MaxOccurrences

\* onClick of the floating button.
ToggleFab ==
    /\ pc = "store"
    /\ failure = ""
    /\ isFabOpen' = ~isFabOpen
    /\ UNCHANGED <<pc, form, calculatorVars, storeVars, showAddModal, addForm,
                   isAddingTask, isAiSorting, error, editingTask, editForm, allTasks,
                   settingsVars>>

\* onClick of the error toast; the toast lies outside the container of the
\* floating button, so handleClickOutside closes the menu on the same click.
DismissError ==
    /\ pc = "store"
    /\ failure = ""
    /\ error # ""
    /\ error' = ""
    /\ isFabOpen' = FALSE
    /\ UNCHANGED <<pc, form, calculatorVars, storeVars, showAddModal,
                   addForm, isAddingTask, isAiSorting, editingTask, editForm,
                   allTasks, settingsVars>>

\* The checkbox of a task on the page.
ToggleCompleteOnPage ==
    /\ ToggleComplete
    /\ TotalTasks(tasks') <= MaxAppTasks
    /\ WithinOccurrences(tasks')

\* removeTask(quadrant, task.id), the delete button of a task; the click
\* closes the menu of the floating button.
RemoveTask ==
    /\ pc = "store"
    /\ failure = ""
    /\ \E quadrant \in Quadrants : \E i \in 1 .. Len(tasks[quadrant]) :
           tasks' = removeTask(tasks, quadrant, tasks[quadrant][i].id)
    /\ isFabOpen' = FALSE
    /\ UNCHANGED <<pc, form, calculatorVars, clock, failure, showAddModal, addForm,
                   isAddingTask, isAiSorting, error, editingTask, editForm, allTasks,
                   settingsVars>>

\* openAddModal, the first entry of the menu.
OpenAddModal ==
    /\ pc = "store"
    /\ failure = ""
    /\ isFabOpen
    /\ isFabOpen' = FALSE
    /\ showAddModal' = TRUE
    /\ error' = ""
    /\ pc' = "adding"
    /\ UNCHANGED <<form, calculatorVars, storeVars, addForm, isAddingTask,
                   isAiSorting, editingTask, editForm, allTasks, settingsVars>>

\* What is typed into the textarea of the add modal.
AddInputs == {" ", "walk"}

\* onChange of the textarea of the add modal.
ChangeAddInput ==
    /\ pc = "adding"
    /\ ~isAddingTask
    /\ \E input \in AddInputs : addForm' = input
    /\ UNCHANGED <<pc, form, calculatorVars, storeVars, isFabOpen, showAddModal,
                   isAddingTask, isAiSorting, error, editingTask, editForm, allTasks,
                   settingsVars>>

\* closeAddModal: the Cancel button and the overlay of the add modal.
CloseAddModal ==
    /\ pc = "adding"
    /\ ~isAddingTask
    /\ showAddModal' = FALSE
    /\ addForm' = ""
    /\ error' = ""
    /\ pc' = "store"
    /\ UNCHANGED <<form, calculatorVars, storeVars, isFabOpen, isAddingTask,
                   isAiSorting, editingTask, editForm, allTasks, settingsVars>>

\* addTask up to its await; the Add button is disabled while the trimmed
\* input is empty, and the textarea holds no more than 500 characters.
AddTask ==
    /\ pc = "adding"
    /\ ~isAddingTask
    /\ trim(addForm) # ""
    /\ Len(trim(addForm)) <= 500
    /\ isAddingTask' = TRUE
    /\ error' = ""
    /\ UNCHANGED <<pc, form, calculatorVars, storeVars, isFabOpen, showAddModal,
                   addForm, isAiSorting, editingTask, editForm, allTasks,
                   settingsVars>>

\* The answers of the AI to addTask: none, one without a title, and tasks
\* with a string or an array as title, no deadline, null or '' as deadline,
\* and a known or an unknown quadrant and complexity.
AppResponses ==
    {AddResponse(FALSE, Undefined, "", Undefined, "", JUndefined, ""),
     AddResponse(TRUE, Undefined, "", Undefined, "urgent-important", JNull, "easy"),
     AddResponse(TRUE, Some("a"), "", Some(EmptyString), "urgent-important",
                 JString("daily"), "hard"),
     AddResponse(TRUE, Some(ArrayTitle), "", NullOption, "urgent-important",
                 JString("weekly"), "easy"),
     AddResponse(TRUE, Some("c"), "", Undefined, "someday",
                 JObject(JInteger(2), JString("week"),
                         JArray(<<JInteger(3), JInteger(1)>>), JUndefined),
                 "unknown")}

\* addTask from the settlement of its await to its end.
AddTaskSettledWith(parsed, typed) ==
    /\ pc = "adding"
    /\ isAddingTask
    /\ LET result == addTask(tasks, parsed, clock, typed)
       IN  /\ TotalTasks(result.tasks) <= MaxAppTasks
           /\ tasks' = result.tasks
           /\ IF result.threw
              THEN /\ error' = result.error
                   /\ UNCHANGED <<pc, addForm, showAddModal>>
              ELSE /\ addForm' = ""
                   /\ showAddModal' = FALSE
                   /\ pc' = "store"
                   /\ UNCHANGED error
    /\ isAddingTask' = FALSE
    /\ UNCHANGED <<form, now, tz, currentDeadline, recurrence, nextDeadline, rebuilt,
                   description, clock, failure, isFabOpen, isAiSorting, editingTask,
                   editForm, allTasks, settingsVars>>

AddTaskSettled ==
    /\ isAddingTask
    /\ \E parsed \in AppResponses : AddTaskSettledWith(parsed, TRUE)
    /\ UNCHANGED validatorVars

\* openEditModal(task, quadrant), a click on a task of the page; the click
\* closes the menu of the floating button.
OpenEditModal ==
    /\ pc = "store"
    /\ failure = ""
    /\ isFabOpen' = FALSE
    /\ \E quadrant \in Quadrants : \E i \in 1 .. Len(tasks[quadrant]) :
           LET task == tasks[quadrant][i]
           IN  /\ editingTask' = Some([task |-> task, quadrant |-> quadrant])
               /\ editForm' = openEditModal(task, quadrant)
               /\ form' = parseRecurrenceToFormState(task.recurrence)
    /\ pc' = "parsed"
    /\ UNCHANGED <<calculatorVars, storeVars, showAddModal, addForm,
                   isAddingTask, isAiSorting, error, allTasks, settingsVars>>

editVars == <<pc, form, calculatorVars, storeVars, isFabOpen, showAddModal, addForm,
              isAddingTask, isAiSorting, error, editingTask, allTasks, settingsVars>>

\* What is typed into the name input of the edit modal.
EditTexts == {"", " ", " c"}

\* onChange of the name input of the edit modal.
ChangeText ==
    /\ pc = "parsed"
    /\ IsSet(editingTask)
    /\ \E text \in EditTexts : editForm' = [editForm EXCEPT !.text = text]
    /\ UNCHANGED editVars

\* onChange of the Urgent checkbox.
ChangeUrgent ==
    /\ pc = "parsed"
    /\ IsSet(editingTask)
    /\ editForm' = [editForm EXCEPT !.isUrgent = ~editForm.isUrgent]
    /\ UNCHANGED editVars

\* onChange of the Important checkbox.
ChangeImportant ==
    /\ pc = "parsed"
    /\ IsSet(editingTask)
    /\ editForm' = [editForm EXCEPT !.isImportant = ~editForm.isImportant]
    /\ UNCHANGED editVars

\* What the date input of the edit modal gives: a date, or '' when its
\* text is deleted.
EditDeadlines == {Undefined, Some([year |-> FirstYear, month |-> 12, day |-> 28])}

\* onChange of the deadline input.
ChangeDeadline ==
    /\ pc = "parsed"
    /\ IsSet(editingTask)
    /\ \E deadline \in EditDeadlines : editForm' = [editForm EXCEPT !.deadline = deadline]
    /\ UNCHANGED editVars

\* onClick of the clear-deadline button, rendered while the form holds a
\* deadline.
ClearDeadline ==
    /\ pc = "parsed"
    /\ IsSet(editingTask)
    /\ IsSet(editForm.deadline)
    /\ editForm' = [editForm EXCEPT !.deadline = Undefined]
    /\ UNCHANGED editVars

\* onChange of the complexity select.
ChangeComplexity ==
    /\ pc = "parsed"
    /\ IsSet(editingTask)
    /\ \E complexity \in validComplexities :
           editForm' = [editForm EXCEPT !.complexity = complexity]
    /\ UNCHANGED editVars

\* What is typed into the description of the edit modal.
EditDescriptions == {" ", "x"}

\* onChange of the description textarea.
ChangeDescription ==
    /\ pc = "parsed"
    /\ IsSet(editingTask)
    /\ \E text \in EditDescriptions : editForm' = [editForm EXCEPT !.description = text]
    /\ UNCHANGED editVars

\* closeEditModal: the Cancel button and the overlay of the edit modal.
CloseEditModal ==
    /\ pc = "parsed"
    /\ IsSet(editingTask)
    /\ editingTask' = Undefined
    /\ editForm' = defaultEditForm
    /\ form' = defaultRecurrenceForm
    /\ pc' = "store"
    /\ UNCHANGED <<calculatorVars, storeVars, isFabOpen, showAddModal, addForm,
                   isAddingTask, isAiSorting, error, allTasks, settingsVars>>

\* saveTaskEdit, the Save Changes button.
SaveTaskEdit ==
    /\ pc = "parsed"
    /\ IsSet(editingTask)
    /\ IF IsArray(editForm.text)
       THEN \* editForm.text.trim is not a function: the handler throws
            UNCHANGED <<pc, tasks, editingTask, editForm, form, error>>
       ELSE IF trim(editForm.text) = ""
       THEN /\ error' = "Task name cannot be empty"
            /\ UNCHANGED <<pc, tasks, editingTask, editForm, form>>
       ELSE /\ tasks' = saveTaskEdit(tasks, Get(editingTask), editForm, form)
            /\ editingTask' = Undefined
            /\ editForm' = defaultEditForm
            /\ form' = defaultRecurrenceForm
            /\ pc' = "store"
            /\ UNCHANGED error
    /\ UNCHANGED <<calculatorVars, clock, failure, isFabOpen, showAddModal, addForm,
                   isAddingTask, isAiSorting, allTasks, settingsVars>>

\* autoSortWithAI up to its await, the second entry of the menu.
AutoSortWithAI ==
    /\ pc = "store"
    /\ failure = ""
    /\ isFabOpen
    /\ ~isAiSorting
    /\ isFabOpen' = FALSE
    /\ LET collected == CollectTasks(tasks, QuadrantOrder)
       IN  IF Len(collected) = 0
           THEN /\ error' = "No tasks to sort"
                /\ UNCHANGED <<pc, isAiSorting, allTasks>>
           ELSE /\ isAiSorting' = TRUE
                /\ error' = ""
                /\ allTasks' = collected
                /\ pc' = "sorting"
    /\ UNCHANGED <<form, calculatorVars, storeVars, showAddModal, addForm,
                   isAddingTask, editingTask, editForm, settingsVars>>

\* The longest answer of the AI to autoSortWithAI.
MaxSorted == 2

\* The entries of an answer: a text of the tasks or an unknown one, with a
\* quadrant (one of them unknown) and a complexity (one of them unknown).
SortEntries ==
    {[text |-> "a", quadrant |-> "urgent-important", complexity |-> "hard"],
     [text |-> "a", quadrant |-> "not-urgent-important", complexity |-> "unknown"],
     [text |-> "b", quadrant |-> "urgent-important", complexity |-> "hard"],
     [text |-> "b", quadrant |-> "soon", complexity |-> "hard"],
     [text |-> "zzz", quadrant |-> "soon", complexity |-> "hard"]}

\* autoSortWithAI from the settlement of its await to its end.
AutoSortSettled ==
    /\ pc = "sorting"
    /\ isAiSorting
    /\ \E ok \in BOOLEAN : \E categorizedTasks \in ArraysOf(SortEntries, MaxSorted) :
           LET result == autoSortWithAI(tasks, allTasks, ok, categorizedTasks)
           IN  /\ TotalTasks(result.tasks) <= MaxAppTasks
               /\ tasks' = result.tasks
               /\ error' = IF result.threw THEN result.error ELSE error
    /\ isAiSorting' = FALSE
    /\ allTasks' = <<>>
    /\ pc' = "store"
    /\ UNCHANGED <<form, calculatorVars, clock, failure, isFabOpen, showAddModal,
                   addForm, isAddingTask, editingTask, editForm, settingsVars>>

NextApp ==
    \/ Tick
    \/ ToggleFab
    \/ DismissError
    \/ ToggleCompleteOnPage
    \/ RemoveTask
    \/ OpenAddModal
    \/ ChangeAddInput
    \/ CloseAddModal
    \/ AddTask
    \/ AddTaskSettled
    \/ OpenEditModal
    \/ ChangeText
    \/ ChangeUrgent
    \/ ChangeImportant
    \/ CloseEditModal
    \/ SaveTaskEdit
    \/ AutoSortWithAI
    \/ AutoSortSettled

SpecApp == InitApp /\ [][NextApp]_vars

(***************************************************************************)
(* Adding one task: the add modal is open on an empty store, a text is     *)
(* typed, and the AI answers addTask with any raw recurrence.  The task    *)
(* keeps the recurrence as validateRecurrence returned it.                 *)
(***************************************************************************)
\* The most tasks added.
MaxAdded == 1

\* The answers of the AI: none, one without a title, and tasks with a short or
\* a long title, with a date, '', null or nothing as deadline, and any raw
\* recurrence.
AddResponses ==
    {AddResponse(FALSE, Undefined, "", Undefined, "", JUndefined, ""),
     AddResponse(TRUE, Undefined, "", Undefined, "urgent-important", JNull, "easy"),
     AddResponse(TRUE, Some(ArrayTitle), "", Undefined, "urgent-important", JNull,
                 "easy"),
     AddResponse(TRUE, Some("a"), "", Some(EmptyString), "urgent-important",
                 JString("weekly"), "easy"),
     AddResponse(TRUE, Some("a"), "", NullOption, "urgent-important",
                 JString("weekly"), "easy"),
     AddResponse(TRUE, Some("a"), "", Some([year |-> FirstYear, month |-> 12, day |-> 28]),
                 "urgent-important", JString("weekly"), "easy")}
    \cup {AddResponse(TRUE, Some(title), "", Undefined, "urgent-important", rec, "easy") :
             title \in {"a", LongTitle}, rec \in RawRecurrences}

\* openAddModal has run on the page of a session with nothing saved.
InitAdd ==
    /\ pc = "adding"
    /\ showAddModal = TRUE
    /\ isFabOpen = FALSE
    /\ addForm = ""
    /\ isAddingTask = FALSE
    /\ isAiSorting = FALSE
    /\ error = ""
    /\ editingTask = Undefined
    /\ editForm = defaultEditForm
    /\ allTasks = <<>>
    /\ tasks = NoTasks
    /\ clock = FirstClock
    /\ failure = ""
    /\ now \in {d \in Today : \A e \in Today : d <= e}
    /\ tz \in TimeZones
    /\ currentDeadline = Undefined
    /\ recurrence = Null
    /\ nextDeadline = NotCalled
    /\ form = defaultRecurrenceForm
    /\ rebuilt = Null
    /\ raw = JUndefined
    /\ validated = JNull
    /\ revalidated = JNull
    /\ description = ""
    /\ SettingsIdle

\* addTask from the settlement of its await to its end, with the raw
\* recurrence of the answer and what the validator made of it.
AddTaskValidated ==
    /\ isAddingTask
    /\ \E parsed \in AddResponses :
           /\ AddTaskSettledWith(parsed, FALSE)
           /\ raw' = parsed.recurrence
           /\ validated' = validateRecurrence(parsed.recurrence)
    /\ TotalTasks(tasks') <= MaxAdded
    /\ UNCHANGED revalidated

NextAdd ==
    \/ ChangeAddInput
    \/ CloseAddModal
    \/ AddTask
    \/ AddTaskValidated

SpecAdd == InitAdd /\ [][NextAdd]_vars

(***************************************************************************)
(* Editing one task: the edit modal is open on the only task of the        *)
(* store, the deadline, the complexity, the description and the recurrence *)
(* controls are used, and Save Changes stores the task built from the      *)
(* form.                                                                   *)
(***************************************************************************)
\* The task whose edit modal is open.
EditedTask(rec) ==
    Task(1, "a", Undefined, Some(SeedDeadline), FALSE, Undefined, rec, Some("easy"))

\* openEditModal has run on the task of a store with one task.
InitSave ==
    /\ pc = "parsed"
    /\ recurrence \in EditedRecurrences
    /\ tasks = [NoTasks EXCEPT !["urgent-important"] = <<EditedTask(recurrence)>>]
    /\ editingTask = Some([task |-> EditedTask(recurrence),
                           quadrant |-> "urgent-important"])
    /\ editForm = openEditModal(EditedTask(recurrence), "urgent-important")
    /\ form = parseRecurrenceToFormState(recurrence)
    /\ isFabOpen = FALSE
    /\ showAddModal = FALSE
    /\ addForm = ""
    /\ isAddingTask = FALSE
    /\ isAiSorting = FALSE
    /\ error = ""
    /\ allTasks = <<>>
    /\ clock = FirstClock
    /\ failure = ""
    /\ now \in {d \in Today : \A e \in Today : d <= e}
    /\ tz = AppTimeZone
    /\ currentDeadline = Undefined
    /\ nextDeadline = NotCalled
    /\ rebuilt = Null
    /\ raw = JUndefined
    /\ validated = JNull
    /\ revalidated = JNull
    /\ description = ""
    /\ SettingsIdle

NextSave ==
    \/ ChangeDeadline
    \/ ClearDeadline
    \/ ChangeComplexity
    \/ ChangeDescription
    \/ SelectRecurrence
    \/ ChangeInterval
    \/ ChangeUnit
    \/ ToggleWeekDay
    \/ ToggleSpecificMonthDay
    \/ SelectMonthDay
    \/ SaveTaskEdit

SpecSave == InitSave /\ [][NextSave]_vars

(***************************************************************************)
(* SettingsModal (components/SettingsModal.tsx).  The component is mounted *)
(* on its own: pc = "settings".  An await is a step to the call and a step *)
(* to its settlement; a call that awaits goes on when the modal is closed. *)
(***************************************************************************)
MaxLoads == 2
MaxTests == 1

ReminderTimes == {"09:00", "18:30"}
COMMON_TIMEZONES == {"Europe/Paris", "Asia/Tokyo"}

\* What the server answers to getNotificationSettings and
\* updateNotificationSettings.
NotificationSettings ==
    [notificationsEnabled : BOOLEAN, reminderTime : ReminderTimes,
     timezone : COMMON_TIMEZONES]

\* The outcome of an awaited call: it resolves, or it rejects with an Error
\* or with another value.  unauthorized: the server has answered 401, and
\* handleUnauthorized has sent the window to /login before the Error is
\* thrown.
Resolved == [threw |-> FALSE, isError |-> FALSE, message |-> "", unauthorized |-> FALSE]
Rejected(message) ==
    [threw |-> TRUE, isError |-> TRUE, message |-> message, unauthorized |-> FALSE]
RejectedWithValue ==
    [threw |-> TRUE, isError |-> FALSE, message |-> "", unauthorized |-> FALSE]
Unauthorized(message) ==
    [threw |-> TRUE, isError |-> TRUE, message |-> message, unauthorized |-> TRUE]

\* The rejections the code does not word: the TypeError of fetch, of
\* urlBase64ToUint8Array on an absent VAPID key, the SyntaxError of
\* response.json(), the DOMException of getSubscription, subscribe or
\* unsubscribe, and a value that is no Error.  The message of an exception
\* of the browser is the browser's wording.
BrowserRejections == {Rejected("Failed to fetch"), RejectedWithValue}

\* subscribeToPushNotifications() (services/push.ts); the toggle is rendered
\* only where isPushSupported(), so the first throw of the function is not
\* among the outcomes.
SubscribeOutcomes ==
    {Resolved, Rejected("Notification permission denied"),
     Rejected("Failed to get subscription keys"),
     Rejected("Failed to subscribe to push"),
     Unauthorized("Failed to subscribe to push")} \cup BrowserRejections

\* unsubscribeFromPushNotifications()
UnsubscribeOutcomes ==
    {Resolved, Rejected("Failed to unsubscribe from push"),
     Unauthorized("Failed to unsubscribe from push")} \cup BrowserRejections

\* updateNotificationSettings(...)
UpdateOutcomes ==
    {Resolved, Rejected("Failed to update notification settings"),
     Unauthorized("Failed to update notification settings")} \cup BrowserRejections

\* What the catch block of a handler passes to setError.
CaughtMessage(handler, outcome) ==
    CASE handler = "handleToggleNotifications" ->
           IF outcome.isError THEN outcome.message
           ELSE "Failed to update notifications"
      [] handler = "handleTimeChange" -> "Failed to update reminder time"
      [] handler = "handleTimezoneChange" -> "Failed to update timezone"

Call(handler, step) == [handler |-> handler, step |-> step]

InitSettings ==
    /\ pc = "settings"
    /\ tasks = NoTasks
    /\ clock = FirstClock
    /\ failure = ""
    /\ now \in {d \in Today : \A e \in Today : d <= e}
    /\ tz \in TimeZones
    /\ currentDeadline = Undefined
    /\ recurrence = Null
    /\ nextDeadline = NotCalled
    /\ form = defaultRecurrenceForm
    /\ rebuilt = Null
    /\ raw = JUndefined
    /\ validated = JNull
    /\ revalidated = JNull
    /\ description = ""
    /\ AppIdle
    /\ SettingsMounted
    /\ pushSupported \in BOOLEAN
    /\ iosNotInstalled \in BOOLEAN

\* Everything but the state of SettingsModal and the page that is shown.
outsidePage == <<form, calculatorVars, storeVars, appVars, browserVars>>

\* Everything but the state of SettingsModal.
outsideSettings == <<pc, outsidePage>>

\* window.location.href = '/login' of handleUnauthorized: the handler runs
\* to its end, and the page of the application is left.
Page(unauthorized) == IF unauthorized THEN "login" ELSE "settings"

\* isOpen becomes true and the effect calls loadSettings, up to its await.
OpenSettings ==
    /\ pc = "settings"
    /\ ~isOpen
    /\ loads < MaxLoads
    /\ isOpen' = TRUE
    /\ loading' = TRUE
    /\ settingsError' = Undefined
    /\ loads' = loads + 1
    /\ UNCHANGED <<outsideSettings, settings, saving, settingsCall, tests>>

\* onClose (the overlay or the Close button)
CloseSettings ==
    /\ pc = "settings"
    /\ isOpen
    /\ isOpen' = FALSE
    /\ UNCHANGED <<outsideSettings, settings, loading, saving, settingsError,
                   settingsCall, loads, tests>>

\* loadSettings from its await to finally
LoadSettingsSettled ==
    /\ pc = "settings"
    /\ loads > 0
    /\ \/ \E data \in NotificationSettings :
              /\ settings' = Some(data)
              /\ UNCHANGED <<pc, settingsError>>
       \/ \E unauthorized \in BOOLEAN :
              /\ settingsError' = Some("Failed to load settings")
              /\ pc' = Page(unauthorized)
              /\ UNCHANGED settings
    /\ loading' = FALSE
    /\ loads' = loads - 1
    /\ UNCHANGED <<outsidePage, saving, settingsCall, isOpen, tests>>

\* The form is rendered with its controls (push notifications are
\* supported), and saving does not disable them.
ControlsEnabled == pc = "settings" /\ isOpen /\ ~loading /\ pushSupported /\ ~saving

\* The toggle: disabled={saving || iosNotInstalled}
ToggleEnabled == ControlsEnabled /\ ~iosNotInstalled

\* handleToggleNotifications up to its first await
HandleToggleNotifications ==
    /\ ToggleEnabled
    /\ IsSet(settings)
    /\ saving' = TRUE
    /\ settingsError' = Undefined
    /\ settingsCall' = Call("handleToggleNotifications",
                            IF Get(settings).notificationsEnabled
                            THEN "unsubscribe" ELSE "subscribe")
    /\ UNCHANGED <<outsideSettings, settings, loading, isOpen, loads, tests>>

\* Where a settings change has ended: after its try block, or after its
\* catch block.
ChangeReturned == Call("", "returned")
ChangeCaught == Call("", "caught")

\* The settings change has failed: catch and finally.
ChangeFailed(outcome) ==
    /\ settingsError' = Some(CaughtMessage(settingsCall.handler, outcome))
    /\ saving' = FALSE
    /\ settingsCall' = ChangeCaught
    /\ UNCHANGED settings

\* handleToggleNotifications from its first await to its second, or to
\* finally when the first one rejects
PushSettled ==
    /\ pc = "settings"
    /\ settingsCall.step \in {"subscribe", "unsubscribe"}
    /\ \E outcome \in IF settingsCall.step = "subscribe"
                      THEN SubscribeOutcomes ELSE UnsubscribeOutcomes :
           /\ IF outcome.threw
              THEN ChangeFailed(outcome)
              ELSE /\ settingsCall' = Call(settingsCall.handler, "update")
                   /\ UNCHANGED <<settings, saving, settingsError>>
           /\ pc' = Page(outcome.unauthorized)
    /\ UNCHANGED <<outsidePage, loading, isOpen, loads, tests>>

\* The reminder time and the timezone are shown when notifications are on.
DetailsShown == IsSet(settings) /\ Get(settings).notificationsEnabled

\* handleTimeChange(time) up to its await
HandleTimeChange ==
    /\ ControlsEnabled
    /\ DetailsShown
    /\ saving' = TRUE
    /\ settingsError' = Undefined
    /\ settingsCall' = Call("handleTimeChange", "update")
    /\ UNCHANGED <<outsideSettings, settings, loading, isOpen, loads, tests>>

\* handleTimezoneChange(timezone) up to its await
HandleTimezoneChange ==
    /\ ControlsEnabled
    /\ DetailsShown
    /\ saving' = TRUE
    /\ settingsError' = Undefined
    /\ settingsCall' = Call("handleTimezoneChange", "update")
    /\ UNCHANGED <<outsideSettings, settings, loading, isOpen, loads, tests>>

\* A handler from the await of updateNotificationSettings to finally
UpdateSettled ==
    /\ pc = "settings"
    /\ settingsCall.step = "update"
    /\ \E outcome \in UpdateOutcomes :
           /\ IF outcome.threw
              THEN ChangeFailed(outcome)
              ELSE /\ \E updated \in NotificationSettings : settings' = Some(updated)
                   /\ saving' = FALSE
                   /\ settingsCall' = ChangeReturned
                   /\ UNCHANGED settingsError
           /\ pc' = Page(outcome.unauthorized)
    /\ UNCHANGED <<outsidePage, loading, isOpen, loads, tests>>

\* handleTestNotification up to its await
HandleTestNotification ==
    /\ ControlsEnabled
    /\ DetailsShown
    /\ tests < MaxTests
    /\ settingsError' = Undefined
    /\ tests' = tests + 1
    /\ UNCHANGED <<outsideSettings, settings, loading, saving, settingsCall,
                   isOpen, loads>>

\* handleTestNotification from its await on
TestSettled ==
    /\ pc = "settings"
    /\ tests > 0
    /\ \/ UNCHANGED <<pc, settingsError>>
       \/ \E unauthorized \in BOOLEAN :
              /\ settingsError' = Some("Failed to send test notification")
              /\ pc' = Page(unauthorized)
    /\ tests' = tests - 1
    /\ UNCHANGED <<outsidePage, settings, loading, saving, settingsCall,
                   isOpen, loads>>

(***************************************************************************)
(* The handlers that raise a busy flag: addTask and autoSortWithAI of App, *)
(* and the settings changes of SettingsModal, each component on its own.  *)
(* The browser ends every request of fetch, with an answer or an error, so *)
(* the actions that settle one are weakly fair.  Nothing ends the wait of  *)
(* subscribeToPushNotifications and unsubscribeFromPushNotifications:      *)
(* navigator.serviceWorker.ready stays pending while no service worker is  *)
(* active, and Notification.requestPermission() while the user leaves the  *)
(* prompt unanswered, so PushSettled is not fair.                          *)
(***************************************************************************)
InitBusy == InitApp \/ InitSettings

NextBusy ==
    \/ ToggleFab
    \/ DismissError
    \/ OpenAddModal
    \/ ChangeAddInput
    \/ CloseAddModal
    \/ AddTask
    \/ AddTaskSettled
    \/ AutoSortWithAI
    \/ AutoSortSettled
    \/ OpenSettings
    \/ CloseSettings
    \/ LoadSettingsSettled
    \/ HandleToggleNotifications
    \/ PushSettled
    \/ HandleTimeChange
    \/ HandleTimezoneChange
    \/ UpdateSettled
    \/ HandleTestNotification
    \/ TestSettled

SpecBusy ==
    /\ InitBusy
    /\ [][NextBusy]_vars
    /\ WF_vars(AddTaskSettled)
    /\ WF_vars(AutoSortSettled)
    /\ WF_vars(UpdateSettled)

(***************************************************************************)
(* Vocabulary of the properties.                                           *)
(***************************************************************************)
\* Today as the host shows it.
LocalToday == StringOfDay(Day(LocalTime(now)))

\* The deadline is absent or a calendar date.
ValidBase == IsSet(currentDeadline) => IsCalendarDate(Get(currentDeadline))

\* The base date as a date string: the deadline, or today when it is absent.
BaseString == IF IsSet(currentDeadline) THEN Get(currentDeadline) ELSE LocalToday

\* calculateNextDeadline has run on a base date.
Calculated == pc = "calculated" /\ ValidBase

\* The calendar date k days after date string s.
AddDays(s, k) == StringOfDay(DayOfString(s) + k)

\* Date string a is strictly later than date string b.
Later(a, b) ==
    \/ a.year > b.year
    \/ a.year = b.year /\ a.month > b.month
    \/ a.year = b.year /\ a.month = b.month /\ a.day > b.day

\* Day `day` of the month n months after the month of s, clamped to the
\* length of that month.
ClampedInMonth(s, n, day) ==
    LET total == s.year * 12 + (s.month - 1) + n
        y == total \div 12
        m == (total % 12) + 1
        dim == DaysInCalendarMonth(y, m)
    IN  [year |-> y, month |-> m, day |-> IF day <= dim THEN day ELSE dim]

IsFlexible(r) == r.type = "object"

MinOf(S) == CHOOSE x \in S : \A y \in S : x <= y

Elements(s) == {s[i] : i \in 1 .. Len(s)}

(***************************************************************************)
(* Properties of calculateNextDeadline.                                    *)
(***************************************************************************)
\* C1: for a Flexible spec with unit month and monthDay set, the result is
\* day min(monthDay, days in target month) of the month `interval` months
\* after the base month (January 31, monthDay 31, interval 1: the last day of
\* February).
C1_MonthDayClamped ==
    (/\ Calculated
     /\ IsFlexible(recurrence)
     /\ recurrence.unit = "month"
     /\ IsSet(recurrence.monthDay))
    => nextDeadline =
           Returned(ClampedInMonth(BaseString, recurrence.interval,
                                   Get(recurrence.monthDay)))

\* C2: for a Flexible spec with unit month and no monthDay, the result is
\* the base day-of-month, clamped to the length of the target month, in the
\* month exactly `interval` months after the base month.
C2_MonthSameDayClamped ==
    (/\ Calculated
     /\ IsFlexible(recurrence)
     /\ recurrence.unit = "month"
     /\ ~IsSet(recurrence.monthDay))
    => nextDeadline =
           Returned(ClampedInMonth(BaseString, recurrence.interval, BaseString.day))

\* C3: for every base date and every legacy or flexible recurrence the
\* result is a calendar date strictly later than the base date.
C3_StrictlyLater ==
    (Calculated /\ recurrence # Null)
    => /\ ~nextDeadline.threw
       /\ IsCalendarDate(nextDeadline.value)
       /\ Later(nextDeadline.value, BaseString)

\* The recurrence is weekly with an explicit, non-empty weekday list.
OnWeekDays == HasWeekDays(recurrence) /\ recurrence.unit = "week"

\* The weekday of the base date (0 = Sunday).
CurrentDay == WeekDayOfString(BaseString)

\* The selected weekdays later in the week than the base date.
LaterThisWeek == {d \in Elements(Get(recurrence.weekDays)) : d > CurrentDay}

\* C4: with explicit weekDays and interval N, when N > 1, or N = 1 and no
\* selected weekday is greater than the base weekday, the result is the base
\* date + (7 - current + smallest selected weekday) + (N - 1) * 7 days.
C4_FirstDayOfNextIntervalWeek ==
    (/\ Calculated
     /\ OnWeekDays
     /\ (recurrence.interval > 1 \/ LaterThisWeek = {}))
    => nextDeadline =
           Returned(AddDays(BaseString,
               (7 - CurrentDay + MinOf(Elements(Get(recurrence.weekDays))))
                   + (recurrence.interval - 1) * 7))

\* C5: with explicit weekDays and interval 1, when some selected weekday is
\* greater than the base weekday, the result is the base date + (d_min -
\* current) days, d_min the smallest such weekday, whatever the order of the
\* list; it lies in the same Sunday-to-Saturday week as the base date.
C5_NextDayThisWeek ==
    (/\ Calculated
     /\ OnWeekDays
     /\ recurrence.interval = 1
     /\ LaterThisWeek # {})
    => /\ nextDeadline = Returned(AddDays(BaseString, MinOf(LaterThisWeek) - CurrentDay))
       /\ DayOfString(nextDeadline.value) - WeekDayOfString(nextDeadline.value)
              = DayOfString(BaseString) - CurrentDay

\* The recurrence adds a fixed number of days, FixedStep.
AddsFixedDays ==
    \/ recurrence \in {Legacy("daily"), Legacy("weekly")}
    \/ IsFlexible(recurrence) /\ recurrence.unit = "day"
    \/ IsFlexible(recurrence) /\ recurrence.unit = "week" /\ ~HasWeekDays(recurrence)

FixedStep ==
    IF recurrence = Legacy("daily") THEN 1
    ELSE IF recurrence = Legacy("weekly") THEN 7
    ELSE IF recurrence.unit = "day" THEN recurrence.interval
    ELSE 7 * recurrence.interval

\* C6: legacy daily adds 1 day, legacy weekly 7 days, flexible day
\* `interval` days, flexible week with absent or empty weekDays 7 * interval
\* days, across month and year boundaries.
C6_FixedNumberOfDays ==
    (Calculated /\ AddsFixedDays)
    => nextDeadline = Returned(AddDays(BaseString, FixedStep))

IsYearly(r) == r = Legacy("yearly") \/ (IsFlexible(r) /\ r.unit = "year")

YearStep == IF recurrence = Legacy("yearly") THEN 1 ELSE recurrence.interval

\* C7: yearly recurrence returns the same month and day-of-month
\* in year + 1 (legacy) or year + interval (flexible), for every base date.
C7_YearlySameMonthAndDay ==
    (Calculated /\ IsYearly(recurrence))
    => nextDeadline =
           Returned([year |-> BaseString.year + YearStep,
                     month |-> BaseString.month, day |-> BaseString.day])

\* C8: calculateNextDeadline throws when, and only when, the recurrence is
\* null; for every other recurrence it returns a date string, whether or not
\* the deadline is present.
C8_ThrowsOnlyForNull ==
    pc = "calculated"
    => /\ nextDeadline.threw <=> recurrence = Null
       /\ ~nextDeadline.threw => IsCalendarDate(nextDeadline.value)

(***************************************************************************)
(* Properties of the form converters.                                      *)
(***************************************************************************)
\* C9: round trip: buildRecurrenceConfig(parseRecurrenceToFormState(s)) has
\* the same description as s and the same calculateNextDeadline result as s
\* on the same base date.
C9_RoundTrip ==
    pc = "built"
    => /\ getRecurrenceDescription(rebuilt) = getRecurrenceDescription(recurrence)
       /\ calculateNextDeadline(currentDeadline, rebuilt, now)
              = calculateNextDeadline(currentDeadline, recurrence, now)

\* C9 witness: a monthly spec with a month day and a stray weekday list has
\* gone through the form; the rebuilt spec differs in representation and
\* keeps the month day.
C9_Witness ==
    /\ pc = "built"
    /\ ValidBase
    /\ IsFlexible(recurrence)
    /\ recurrence.unit = "month"
    /\ IsSet(recurrence.monthDay)
    /\ rebuilt # recurrence
    /\ rebuilt = Config(recurrence.interval, "month", Undefined, recurrence.monthDay)

FlexibleWeekly == Config(1, "week", Undefined, Undefined)

\* C10 as stated: both Legacy(weekly) and the flexible spec {interval 1,
\* unit week, no weekDays} are parsed to a form state with preset weekly.
C10_BothParseToPresetWeekly ==
    (pc = "parsed" /\ recurrence \in {Legacy("weekly"), FlexibleWeekly})
    => form.preset = Some("weekly")

\* C10 amended: Legacy(weekly) is parsed to preset weekly and the flexible
\* spec {interval 1, unit week, no weekDays} to preset custom, both with
\* interval 1, unit week and no weekDays; the recurrence built back from
\* either form is described as "Weekly" and has the next deadline of
\* Legacy(weekly).
C10_WeeklyFormsAmended ==
    (recurrence \in {Legacy("weekly"), FlexibleWeekly})
    => /\ pc \in {"parsed", "built"}
          => /\ form.enabled
             /\ form.preset = IF recurrence = FlexibleWeekly
                              THEN Some("custom") ELSE Some("weekly")
             /\ form.interval = 1
             /\ form.unit = "week"
             /\ form.weekDays = <<>>
       /\ pc = "built"
          => /\ getRecurrenceDescription(rebuilt) = "Weekly"
             /\ calculateNextDeadline(currentDeadline, rebuilt, now)
                    = calculateNextDeadline(currentDeadline, Legacy("weekly"), now)

\* C10 witness: the flexible weekly spec has been parsed to preset custom and
\* built back unchanged.
C10_Witness ==
    /\ pc = "built"
    /\ ValidBase
    /\ recurrence = FlexibleWeekly
    /\ form.preset = Some("custom")
    /\ rebuilt = FlexibleWeekly

(***************************************************************************)
(* Claims about validateRecurrence (specification SpecValidator).          *)
(***************************************************************************)
IsWhole(x) == x.halves % 2 = 0

\* A number that is an integer in lo..hi.
IsIntegerIn(x, lo, hi) ==
    x.kind = "number" /\ IsWhole(x) /\ x.halves >= 2 * lo /\ x.halves <= 2 * hi

\* A number (whole or not) in the closed range lo..hi.
IsNumberIn(x, lo, hi) ==
    x.kind = "number" /\ x.halves >= 2 * lo /\ x.halves <= 2 * hi

\* C11: validateRecurrence is idempotent: validating the value that
\* validateRecurrence(x) returned, written as JSON and parsed again, yields a
\* value equal to validateRecurrence(x), for every raw input x.
C11_Idempotent ==
    pc = "revalidated" => revalidated = validated

\* C11 witness: a raw object that the validator changed (clamped, filtered or
\* sorted) has been validated a second time and still carries weekDays.
C11_Witness ==
    /\ pc = "revalidated"
    /\ raw.kind = "object"
    /\ validated.kind = "object"
    /\ validated # raw
    /\ validated.weekDays.kind = "array"

\* C12: every flexible spec returned by validateRecurrence has an integer
\* interval in 1..99; weekDays, if present, is non-empty, holds only integers
\* in 0..6, has no duplicates and is sorted ascending; monthDay, if present,
\* is in 1..31.
C12_ValidatedInvariants ==
    (pc = "validated" /\ validated.kind = "object")
    => /\ IsIntegerIn(validated.interval, 1, INTERVAL_LIMIT)
       /\ validated.weekDays.kind # "undefined"
          => LET days == validated.weekDays.items
             IN  /\ validated.weekDays.kind = "array"
                 /\ Len(days) > 0
                 /\ \A i \in 1 .. Len(days) : IsIntegerIn(days[i], 0, 6)
                 /\ \A i \in 1 .. Len(days) : \A j \in 1 .. Len(days) :
                        i < j => days[i].halves < days[j].halves
       /\ validated.monthDay.kind # "undefined"
          => IsIntegerIn(validated.monthDay, 1, 31)

\* C13: validateRecurrence never throws and degrades to None: null and
\* undefined give None; a string is returned only if it is one of the four
\* legacy names, otherwise None; an object gives None unless interval is a
\* number >= 1 and unit is one of day, week, month, year; an out-of-range or
\* non-numeric monthDay and a weekDays with no valid item are dropped without
\* rejecting the rest of the spec.
C13_DegradesToNone ==
    pc = "validated"
    => /\ validated.kind \in {"null", "string", "object"}
       /\ raw.kind \in {"null", "undefined"} => validated = JNull
       /\ raw.kind = "string"
          => validated = IF raw.value \in LegacyPatterns THEN raw ELSE JNull
       /\ raw.kind = "object"
          => /\ validated # JNull
                <=> /\ raw.interval.kind = "number"
                    /\ raw.interval.halves >= 2
                    /\ raw.unit \in {JString(u) : u \in RecurrenceUnits}
             /\ validated # JNull
                => /\ validated.kind = "object"
                   /\ validated.unit = raw.unit
                   /\ ~IsNumberIn(raw.monthDay, 1, 31)
                      => validated.monthDay = JUndefined
                   /\ IsNumberIn(raw.monthDay, 1, 31)
                      => validated.monthDay = raw.monthDay
                   /\ \/ raw.weekDays.kind # "array"
                      \/ \A i \in 1 .. Len(raw.weekDays.items) :
                             ~IsNumberIn(raw.weekDays.items[i], 0, 6)
                      => validated.weekDays = JUndefined

\* C13 witness: an object with interval 2.5, a valid unit, monthDay 32 and
\* weekDays [7, "1"] has been validated to the spec {interval 2, unit}.
C13_Witness ==
    /\ pc = "validated"
    /\ raw.kind = "object"
    /\ raw.interval = JNumber(5)
    /\ raw.monthDay = JInteger(32)
    /\ raw.weekDays = JArray(<<JInteger(7), JString("1")>>)
    /\ validated = JObject(JInteger(2), raw.unit, JUndefined, JUndefined)
(***************************************************************************)
(* Claims about the form converters.                                       *)
(***************************************************************************)
\* C14: buildRecurrenceConfig returns None when enabled is false; the legacy
\* string when preset is daily, weekly, monthly or yearly, whatever the other
\* fields hold; otherwise a flexible spec {interval, unit} with weekDays only
\* if unit = week and weekDays is non-empty, and monthDay only if
\* unit = month, useSpecificMonthDay is true and monthDay is set.
C14_BuildRecurrenceConfig ==
    pc = "built"
    => IF ~form.enabled THEN rebuilt = Null
       ELSE IF \E p \in {"daily", "weekly", "monthly", "yearly"} : form.preset = Some(p)
       THEN rebuilt = [type |-> "string", value |-> Get(form.preset)]
       ELSE /\ rebuilt.type = "object"
            /\ rebuilt.interval = form.interval
            /\ rebuilt.unit = form.unit
            /\ IF form.unit = "week" /\ form.weekDays # <<>>
               THEN rebuilt.weekDays = Some(form.weekDays)
               ELSE rebuilt.weekDays = Undefined
            /\ IF form.unit = "month" /\ form.useSpecificMonthDay /\ IsSet(form.monthDay)
               THEN rebuilt.monthDay = form.monthDay
               ELSE rebuilt.monthDay = Undefined

\* C14 witness: a custom monthly form with weekDays and a ticked month day has
\* been built to a spec with the monthDay and without the weekDays.
C14_Witness ==
    /\ pc = "built"
    /\ form.enabled
    /\ form.preset = Some("custom")
    /\ form.unit = "month"
    /\ form.weekDays = <<1, 3>>
    /\ form.useSpecificMonthDay
    /\ rebuilt = Config(form.interval, "month", Undefined, Some(31))

\* C15: parseRecurrenceToFormState maps None to the disabled default form
\* (enabled false, preset null, interval 1, no weekDays, monthDay null);
\* Legacy(p) to enabled, preset p, interval 1, the unit of p, empty weekDays,
\* monthDay null, useSpecificMonthDay false; a flexible spec to enabled,
\* preset custom, interval, unit, weekDays and monthDay copied (empty / null
\* when absent), useSpecificMonthDay true exactly when monthDay is set.
C15_ParseRecurrenceToFormState ==
    pc = "parsed"
    => IF recurrence.type = "null"
       THEN /\ form = defaultRecurrenceForm
            /\ ~form.enabled
            /\ form.preset = Undefined
            /\ form.interval = 1
            /\ form.weekDays = <<>>
            /\ form.monthDay = Undefined
       ELSE IF recurrence.type = "string"
       THEN /\ form.enabled
            /\ form.preset = Some(recurrence.value)
            /\ form.interval = 1
            /\ <<recurrence.value, form.unit>>
                   \in {<<"daily", "day">>, <<"weekly", "week">>,
                        <<"monthly", "month">>, <<"yearly", "year">>}
            /\ form.weekDays = <<>>
            /\ form.monthDay = Undefined
            /\ ~form.useSpecificMonthDay
       ELSE /\ form.enabled
            /\ form.preset = Some("custom")
            /\ form.interval = recurrence.interval
            /\ form.unit = recurrence.unit
            /\ form.weekDays = IF IsSet(recurrence.weekDays)
                               THEN Get(recurrence.weekDays) ELSE <<>>
            /\ form.monthDay = recurrence.monthDay
            /\ form.useSpecificMonthDay <=> IsSet(recurrence.monthDay)

\* C15 witness: a flexible spec with weekDays and a monthDay has been parsed
\* to a custom form with the month-day box ticked.
C15_Witness ==
    /\ pc = "parsed"
    /\ IsFlexible(recurrence)
    /\ HasWeekDays(recurrence)
    /\ IsSet(recurrence.monthDay)
    /\ form.preset = Some("custom")
    /\ form.useSpecificMonthDay

(***************************************************************************)
(* Claims about getRecurrenceDescription.                                  *)
(***************************************************************************)
\* The description the claim gives to a weekly spec with the list days: the
\* set of the days classifies it, and the names are joined as listed.
WeekDaysDescription(days, interval) ==
    IF Elements(days) = {1, 2, 3, 4, 5}
    THEN IF interval = 1 THEN "Weekdays"
         ELSE "Every " \o ToString(interval) \o " weeks (weekdays)"
    ELSE IF Elements(days) = {0, 6}
    THEN IF interval = 1 THEN "Weekends"
         ELSE "Every " \o ToString(interval) \o " weeks (weekends)"
    ELSE IF interval = 1 THEN "Every " \o JoinDayNames(days)
         ELSE "Every " \o ToString(interval) \o " weeks on " \o JoinDayNames(days)

\* C16: for a spec with unit = week and non-empty weekDays the description is
\* "Weekdays" / "Every N weeks (weekdays)" when the set of days is {1..5},
\* "Weekends" / "Every N weeks (weekends)" when it is {0, 6}, and
\* "Every <names>" / "Every N weeks on <names>" for every other set; which
\* of the three it is depends only on the set of the days, not on the order
\* of the weekDays list.
C16_WeekDaysDescription ==
    (pc = "previewed" /\ HasWeekDays(rebuilt) /\ rebuilt.unit = "week")
    => description = WeekDaysDescription(Get(rebuilt.weekDays), rebuilt.interval)

\* The description the claim gives to a spec without special case.
PlainDescription(interval, unit) ==
    IF interval = 1
    THEN CASE unit = "day" -> "Daily" [] unit = "week" -> "Weekly"
           [] unit = "month" -> "Monthly" [] unit = "year" -> "Yearly"
    ELSE IF interval = 2
    THEN CASE unit = "day" -> "Every other day" [] unit = "week" -> "Biweekly"
           [] unit = "month" -> "Bimonthly" [] unit = "year" -> "Biannual"
    ELSE "Every " \o ToString(interval) \o " " \o unit \o "s"

\* The weekday case or the month-day case applies to the spec.
SpecialCase(r) ==
    \/ r.unit = "week" /\ HasWeekDays(r)
    \/ r.unit = "month" /\ IsSet(r.monthDay)

\* C17: the description is "" for None; "Daily", "Weekly", "Monthly",
\* "Yearly" for the legacy names; for a flexible spec outside the weekday and
\* month-day cases "Daily" / "Weekly" / "Monthly" / "Yearly" at interval 1,
\* "Every other day" / "Biweekly" / "Bimonthly" / "Biannual" at interval 2 and
\* "Every N days / weeks / months / years" for N in 3..99; weekDays on a unit
\* other than week and monthDay on a unit other than month do not change it.
C17_PlainDescription ==
    pc = "described"
    => /\ recurrence.type = "null" => description = ""
       /\ recurrence.type = "string"
          => <<recurrence.value, description>>
                 \in {<<"daily", "Daily">>, <<"weekly", "Weekly">>,
                      <<"monthly", "Monthly">>, <<"yearly", "Yearly">>}
       /\ (IsFlexible(recurrence) /\ ~SpecialCase(recurrence)
              /\ recurrence.interval \in 1 .. INTERVAL_LIMIT)
          => description = PlainDescription(recurrence.interval, recurrence.unit)

\* C17 witness: a spec of unit day that carries weekDays and a monthDay has
\* been described as "Every N days".
C17_Witness ==
    /\ pc = "described"
    /\ IsFlexible(recurrence)
    /\ recurrence.unit = "day"
    /\ HasWeekDays(recurrence)
    /\ IsSet(recurrence.monthDay)
    /\ recurrence.interval >= 3
    /\ description = "Every " \o ToString(recurrence.interval) \o " days"

\* The ordinal suffix the claim gives to a day of the month.
SuffixOf(d) ==
    IF d \in {1, 21, 31} THEN "st"
    ELSE IF d \in {2, 22} THEN "nd"
    ELSE IF d \in {3, 23} THEN "rd"
    ELSE "th"

\* C18: for a spec with unit = month and monthDay d in 1..31 the description
\* is "<d><suffix> of each month" at interval 1 and "<d><suffix> every N
\* months" otherwise, the suffix being st for 1, 21, 31, nd for 2, 22, rd for
\* 3, 23 and th for every other day, 11, 12 and 13 included.
C18_MonthDayDescription ==
    (pc = "described" /\ IsFlexible(recurrence) /\ recurrence.unit = "month"
        /\ IsSet(recurrence.monthDay) /\ Get(recurrence.monthDay) \in 1 .. 31)
    => LET d == Get(recurrence.monthDay)
       IN  description =
               IF recurrence.interval = 1
               THEN ToString(d) \o SuffixOf(d) \o " of each month"
               ELSE ToString(d) \o SuffixOf(d) \o " every "
                        \o ToString(recurrence.interval) \o " months"

\* C18 witness: the 12th of every third month has been described.
C18_Witness ==
    /\ pc = "described"
    /\ recurrence = Config(3, "month", Undefined, Some(12))
    /\ description = "12th every 3 months"

(***************************************************************************)
(* Claims about toggleComplete (specification SpecStore).                  *)
(***************************************************************************)
\* The first task of the quadrant with the given id (the task toggleComplete
\* works on), as a sequence of length 0 or 1.
Toggled(quadrant, taskId) ==
    LET list == tasks[quadrant]
        found == {i \in 1 .. Len(list) : list[i].id = taskId}
    IN  IF found = {} THEN <<>> ELSE <<MinOf(found)>>

\* The steps of toggleComplete(quadrant, taskId) on an incomplete task with a
\* recurrence.
CompletesRecurring(quadrant, taskId) ==
    /\ pc = "store"
    /\ failure = ""
    /\ Toggled(quadrant, taskId) # <<>>
    /\ ~tasks[quadrant][Toggled(quadrant, taskId)[1]].completed
    /\ tasks[quadrant][Toggled(quadrant, taskId)[1]].recurrence # Null
    /\ Len(tasks[quadrant]) < MaxTasks
    /\ ToggleCompleteOf(quadrant, taskId)

\* C19: toggleComplete on an incomplete task with a recurrence marks that
\* task completed with completedAt = today and appends to the same quadrant
\* exactly one new task, which is incomplete, has no completedAt, has the
\* text, description, recurrence and complexity of the original and has the
\* deadline calculateNextDeadline(original deadline, recurrence); the other
\* fields of the original task are unchanged.
C19_CompleteRecurring ==
    [][\A quadrant \in Quadrants : \A taskId \in 1 .. MaxClock :
          CompletesRecurring(quadrant, taskId)
          => LET index == Toggled(quadrant, taskId)[1]
                 old == tasks[quadrant]
                 new == tasks'[quadrant]
                 original == old[index]
                 added == new[Len(new)]
             IN  /\ Len(new) = Len(old) + 1
                 /\ \A other \in Quadrants \ {quadrant} : tasks'[other] = tasks[other]
                 /\ new[index] = [original EXCEPT
                                     !.completed = TRUE,
                                     !.completedAt = Some(toISODate(now).value)]
                 /\ ~added.completed
                 /\ added.completedAt = Undefined
                 /\ added.text = original.text
                 /\ added.description = original.description
                 /\ added.recurrence = original.recurrence
                 /\ added.complexity = original.complexity
                 /\ added.deadline
                        = Some(calculateNextDeadline(original.deadline,
                                                     original.recurrence, now).value)
      ]_vars

\* The tasks of a list that a step turns from incomplete to complete and that
\* have a recurrence.
RecurringCompletions(old, new) ==
    {i \in 1 .. Len(old) :
        /\ i <= Len(new)
        /\ old[i].recurrence # Null
        /\ ~old[i].completed
        /\ new[i].completed}

\* C20: over any sequence of toggleComplete calls, every transition of a
\* recurring task from incomplete to complete appends exactly one
\* next-occurrence task, every transition from complete to incomplete appends
\* no task and removes no task, and toggling a task without recurrence never
\* changes the number of tasks: each call lengthens the list of the quadrant
\* by the number of recurring tasks it completes and keeps the tasks that were
\* there in place.
C20_OneOccurrencePerCompletion ==
    [][ToggleComplete
       => \A quadrant \in Quadrants :
              LET old == tasks[quadrant]
                  new == tasks'[quadrant]
              IN  /\ Len(new) = Len(old) + Cardinality(RecurringCompletions(old, new))
                  /\ \A i \in 1 .. Len(old) : new[i].id = old[i].id
      ]_vars

(***************************************************************************)
(* calculateNextDeadline as a function of its arguments and the clock.     *)
(***************************************************************************)
\* C22: calculateNextDeadline is deterministic, and with a deadline present
\* its result is the same whatever the clock says; only without a deadline
\* does the result depend on the clock, which then serves as the base date:
\* the result is the one the helper of the recurrence computes from the time
\* the clock shows.
C22_ClockIndependent ==
    pc = "calculated" =>
        /\ nextDeadline = calculateNextDeadline(currentDeadline, recurrence, now)
        /\ IsSet(currentDeadline) =>
               \A today \in Today :
                   calculateNextDeadline(currentDeadline, recurrence, today)
                       = nextDeadline
        /\ (~IsSet(currentDeadline) /\ recurrence # Null) =>
               nextDeadline = IF isLegacyRecurrence(recurrence)
                              THEN calculateLegacyNextDeadline(now, recurrence)
                              ELSE calculateFlexibleNextDeadline(now, recurrence)

\* A next deadline computed from a deadline that lies before one clock
\* reading and after none of the others.
C22_Witness ==
    /\ Calculated
    /\ IsSet(currentDeadline)
    /\ ~nextDeadline.threw
    /\ \E today \in Today : today # now /\ ParseDate(Get(currentDeadline)) < today

\* The Flexible spec a legacy pattern stands for: interval 1 of its unit.
FlexibleOf(r) == Config(1, unitMap(r.value), Undefined, Undefined)

\* C25: each legacy pattern behaves as the Flexible spec with interval 1 and
\* the corresponding unit: calculateNextDeadline returns the same date for
\* every base date, and getRecurrenceDescription returns the same label.
C25_LegacyIsIntervalOne ==
    (Calculated /\ isLegacyRecurrence(recurrence)) =>
        /\ nextDeadline = calculateNextDeadline(currentDeadline, FlexibleOf(recurrence), now)
        /\ getRecurrenceDescription(recurrence)
               = getRecurrenceDescription(FlexibleOf(recurrence))

\* A monthly pattern computed from the 31st of a month.
C25_Witness ==
    /\ Calculated
    /\ recurrence = Legacy("monthly")
    /\ BaseString.day = 31
    /\ ~nextDeadline.threw

\* C26: for unit week with a non-empty weekDays, the weekday of the returned
\* date is a member of weekDays, for every base date and every interval.
C26_WeekdayIsSelected ==
    (Calculated /\ HasWeekDays(recurrence) /\ recurrence.unit = "week") =>
        /\ ~nextDeadline.threw
        /\ WeekDayOfString(nextDeadline.value) \in Elements(Get(recurrence.weekDays))

(***************************************************************************)
(* Properties of the handlers of App.                                      *)
(***************************************************************************)
\* No two tasks of the four quadrants of a tasks state share an id.
UniqueIds(state) ==
    LET stored == CollectTasks(state, QuadrantOrder)
    IN  \A i, j \in 1 .. Len(stored) : i # j => stored[i].task.id # stored[j].task.id

\* C21: addTask, toggleComplete, saveTaskEdit and removeTask keep the ids of
\* the tasks of the four quadrants distinct, also when two tasks are created
\* while Date.now() returns the same value: none of them leads from tasks
\* with distinct ids to two tasks with the same id.
C21_FreshIdentity ==
    [][((AddTaskSettled \/ ToggleCompleteOnPage \/ SaveTaskEdit \/ RemoveTask)
            /\ UniqueIds(tasks))
          => UniqueIds(tasks')]_vars

\* What a sort has to keep of a task: everything but its complexity.
Kept(task) ==
    [id |-> task.id, text |-> task.text, description |-> task.description,
     deadline |-> task.deadline, completed |-> task.completed,
     completedAt |-> task.completedAt, recurrence |-> task.recurrence]

\* How many tasks of a tasks state are kept as the given one.
CountKept(state, kept) ==
    LET stored == CollectTasks(state, QuadrantOrder)
    IN  Cardinality({i \in 1 .. Len(stored) : Kept(stored[i].task) = kept})

KeptOf(state) ==
    LET stored == CollectTasks(state, QuadrantOrder)
    IN  {Kept(stored[i].task) : i \in 1 .. Len(stored)}

\* C28: a successful autoSortWithAI keeps the collection of tasks whatever
\* the AI answers: the ids are the same, each as often as before, and every
\* task keeps its text, description, deadline, completed, completedAt and
\* recurrence; a failed sort leaves the tasks as they were.
C28_SortPreservesTasks ==
    [][AutoSortSettled
          => IF error' # ""
             THEN tasks' = tasks
             ELSE \A kept \in KeptOf(tasks) \cup KeptOf(tasks') :
                      CountKept(tasks', kept) = CountKept(tasks, kept)
      ]_vars

\* How many tasks of a tasks state equal the given one.
CountTask(state, task) ==
    LET stored == CollectTasks(state, QuadrantOrder)
    IN  Cardinality({i \in 1 .. Len(stored) : stored[i].task = task})

TasksOf(state) ==
    LET stored == CollectTasks(state, QuadrantOrder)
    IN  {stored[i].task : i \in 1 .. Len(stored)}

\* The quadrants of a tasks state that hold a task with the given id.
QuadrantsOf(state, taskId) ==
    {quadrant \in Quadrants :
        \E i \in 1 .. Len(state[quadrant]) : state[quadrant][i].id = taskId}

\* C29: saveTaskEdit keeps every task in exactly one quadrant: the edited
\* task, with its id, completed and completedAt, is in the quadrant of
\* (isUrgent, isImportant) and in no other, the number of tasks is the same
\* and every other task is unchanged; with an empty or blank name no task
\* changes, an error is set and the modal stays open.
C29_SaveKeepsOthers ==
    [][SaveTaskEdit
          => IF trim(editForm.text) = ""
             THEN /\ tasks' = tasks
                  /\ error' # ""
                  /\ editingTask' = editingTask
                  /\ IsSet(editingTask')
             ELSE LET editing == Get(editingTask)
                      newQuadrant == QuadrantOf(editForm.isUrgent, editForm.isImportant)
                      updated == updatedTask(editing, editForm, form)
                  IN  /\ updated.id = editing.task.id
                      /\ updated.completed = editing.task.completed
                      /\ updated.completedAt = editing.task.completedAt
                      /\ QuadrantsOf(tasks', editing.task.id) = {newQuadrant}
                      /\ TotalTasks(tasks') = TotalTasks(tasks)
                      /\ \A task \in (TasksOf(tasks) \cup TasksOf(tasks'))
                                         \ {editing.task, updated} :
                             CountTask(tasks', task) = CountTask(tasks, task)
                      /\ editing.task # updated =>
                             /\ CountTask(tasks', updated) = CountTask(tasks, updated) + 1
                             /\ CountTask(tasks', editing.task)
                                    = CountTask(tasks, editing.task) - 1
      ]_vars

(***************************************************************************)
(* Properties of addTask (specification SpecAdd).                          *)
(***************************************************************************)
\* A validated value as it is stored is absent, a legacy pattern, or a
\* Flexible spec with an integer interval in 1..99, a weekDays that, if
\* present, is a non-empty ascending list of integers in 0..6, and a
\* monthDay that, if present, is an integer in 1..31.
IsNormalized(v) ==
    \/ v.kind = "undefined"
    \/ v.kind = "string" /\ v.value \in LegacyPatterns
    \/ /\ v.kind = "object"
       /\ IsIntegerIn(v.interval, 1, INTERVAL_LIMIT)
       /\ v.unit.kind = "string" /\ v.unit.value \in RecurrenceUnits
       /\ v.weekDays.kind # "undefined"
          => /\ v.weekDays.kind = "array"
             /\ Len(v.weekDays.items) > 0
             /\ \A i \in 1 .. Len(v.weekDays.items) :
                    IsIntegerIn(v.weekDays.items[i], 0, 6)
             /\ \A i, j \in 1 .. Len(v.weekDays.items) :
                    i < j => v.weekDays.items[i].halves < v.weekDays.items[j].halves
       /\ v.monthDay.kind # "undefined" => IsIntegerIn(v.monthDay, 1, 31)

\* addTask has stored a task for an answer with a title.
Added == pc = "store" /\ Len(tasks["urgent-important"]) = 1

\* C23: the task addTask creates carries validateRecurrence of the raw value
\* of the AI: its recurrence is absent, a legacy pattern or a normalized
\* Flexible spec, and a raw value the validator rejects gives a task without
\* recurrence and no failure of the add.
C23_AddedRecurrenceValidated ==
    /\ Added =>
           LET task == tasks["urgent-important"][1]
           IN  /\ validated = validateRecurrence(raw)
               /\ task.recurrence = AsValidated(validated)
               /\ IsNormalized(task.recurrence)
               /\ error = ""
    /\ raw.kind \notin {"undefined", "null"} => (Added /\ error = "")

(***************************************************************************)
(* Properties of saveTaskEdit on the recurrence (specification SpecSave).  *)
(***************************************************************************)
\* The invariants of a stored recurrence: none, a legacy pattern, or a
\* Flexible spec with an interval in lo..hi, a weekDays that, if present, is
\* a non-empty strictly ascending list within 0..6, and a monthDay that, if
\* present, is in 1..31.
IsRecurrenceSpec(r, lo, hi) ==
    \/ r = Null
    \/ r.type = "string" /\ r.value \in LegacyPatterns
    \/ /\ r.type = "object"
       /\ r.interval \in lo .. hi
       /\ r.unit \in RecurrenceUnits
       /\ IsSet(r.weekDays)
          => LET days == Get(r.weekDays)
             IN  /\ Len(days) > 0
                 /\ \A i \in 1 .. Len(days) : days[i] \in 0 .. 6
                 /\ \A i, j \in 1 .. Len(days) : i < j => days[i] < days[j]
       /\ IsSet(r.monthDay) => Get(r.monthDay) \in 1 .. 31

\* saveTaskEdit has stored the task and closed the modal.
Saved == pc = "store" /\ ~IsSet(editingTask) /\ Len(tasks["urgent-important"]) = 1

\* C24: every recurrence saveTaskEdit stores satisfies the invariants of a
\* recurrence spec, for every form state the edit controls reach: interval
\* an integer in 1..99, weekDays if present non-empty, without duplicates
\* and ascending within 0..6, monthDay if present in 1..31.
C24_SavedRecurrenceInvariants ==
    Saved => IsRecurrenceSpec(tasks["urgent-important"][1].recurrence,
                              1, INTERVAL_LIMIT)

(***************************************************************************)
(* Properties of a weekly task completed again and again.                  *)
(***************************************************************************)
\* The weekdays selected in the recurrence of the task.
SelectedWeekDays == Elements(Get(Occurrences[1].recurrence.weekDays))

\* Weekday d is the weekday of the deadline of some occurrence.
OccursAsDeadline(d) ==
    \E i \in 1 .. Len(Occurrences) :
        WeekDayOfString(Get(Occurrences[i].deadline)) = d

\* The weekday the calculator reads from a deadline:
\* new Date(deadline).getDay().
WeekDayRead(s) == getDay(ParseDate(s))

\* The deadlines follow each other on a host whose clock never shifts: the
\* next deadline is computed from the weekday of the previous one, the
\* interval and the weekDays alone, so once the newest deadline falls on
\* the weekday of an earlier one the deadlines repeat from there on.
DeadlinesRepeat ==
    /\ tz \in {"UTC", "Asia/Tokyo"}
    /\ \E i \in 1 .. Len(Occurrences) - 1 :
           WeekDayOfString(Get(Occurrences[i].deadline))
               = WeekDayOfString(Get(Occurrences[Len(Occurrences)].deadline))

AcrossDaylightStart(i) ==
    LocalTZA(ParseDate(Get(Occurrences[i - 1].deadline)), TRUE)
        < LocalTZA(ParseDate(Get(Occurrences[i].deadline)) + 1439, TRUE)

\* With an interval of two weeks or more, every deadline the calculator
\* returns is read as the smallest selected weekday, or as the day before
\* when it was computed across the start of daylight saving time.
OnlyTheFirstDay ==
    \A i \in 2 .. Len(Occurrences) :
        LET first == Get(Occurrences[1].recurrence.weekDays)[1]
            read == WeekDayRead(Get(Occurrences[i].deadline))
        IN  Occurrences[1].recurrence.interval >= 2 =>
                \/ read = first
                \/ AcrossDaylightStart(i) /\ read = (first + 6) % 7

\* A completion of a task whose deadline the host reads as weekday w moves
\* the deadline to the weekday the step 2 or 3 of the algorithm names.
NextWeekDay(w, interval, days) ==
    LET later == {d \in Elements(days) : d > w}
    IN  IF interval = 1 /\ later # {}
        THEN CHOOSE d \in later : \A e \in later : d <= e
        ELSE days[1]

\* The newest deadline is read as the weekday the algorithm names for the
\* weekday read from the one before, or as the day before that weekday when
\* it was computed across the start of daylight saving time.
NewestFollowsTheAlgorithm ==
    LET n == Len(Occurrences)
        rec == Occurrences[1].recurrence
        read == WeekDayRead(Get(Occurrences[n].deadline))
        named == NextWeekDay(WeekDayRead(Get(Occurrences[n - 1].deadline)),
                             rec.interval, Get(rec.weekDays))
    IN  n >= 2 =>
            \/ read = named
            \/ AcrossDaylightStart(n) /\ read = (named + 6) % 7

AddFailed == isAddingTask /\ ~isAddingTask' /\ showAddModal'

\* autoSortWithAI has ended in its catch block: the error toast is shown.
SortFailed == isAiSorting /\ ~isAiSorting' /\ error' # ""

\* A settings change has ended in its catch block.
SettingsChangeFailed == saving /\ settingsCall' = ChangeCaught

\* Whatever the AI answers, a sort that throws carries a message.
SortThrowsWithMessage ==
    isAiSorting =>
        \A ok \in BOOLEAN : \A categorizedTasks \in ArraysOf(SortEntries, MaxSorted) :
            LET result == autoSortWithAI(tasks, allTasks, ok, categorizedTasks)
            IN  result.threw => result.error # "" /\ result.tasks = tasks

\* C30: the busy flags always return to false: once addTask has set
\* isAddingTask, autoSortWithAI has set isAiSorting, or a settings change of
\* SettingsModal has set saving, the flag is eventually false again whether
\* the awaited call resolves or rejects; when it fails, an error message is
\* set and the tasks, or the notification settings, are left as they were.
\* A flag is not followed once the window has left the application.
C30_BusyFlagsReset ==
    /\ isAddingTask ~> ~isAddingTask
    /\ isAiSorting ~> ~isAiSorting
    /\ saving ~> (~saving \/ pc = "login")
    /\ [][AddFailed => error' # "" /\ tasks' = tasks]_vars
    /\ [][SortFailed => tasks' = tasks]_vars
    /\ []SortThrowsWithMessage
    /\ [][SettingsChangeFailed =>
              /\ ~saving'
              /\ IsSet(settingsError') /\ Get(settingsError') # ""
              /\ settings' = settings]_vars

====
